---- MODULE Spec2Model ----
(***************************************************************************)
(* Model of the newsgpt pipeline core: the content packers of main.js      *)
(* (aggregateArticleDataForSource, aggregateAnalysisFiles) and the         *)
(* rate-limited call gate of gemini-module.js (ask_gemini).                *)
(*                                                                         *)
(* Strings are modelled by their composition: a string under construction  *)
(* is a sequence of segments, each carrying its length in characters, and  *)
(* String.length is the sum of the segment lengths.  The literal parts of  *)
(* the template strings keep the lengths they have in the source.          *)
(***************************************************************************)
EXTENDS Integers, Sequences, FiniteSets, TLC

VARIABLES
    \* ---- packer (main.js) ----
    task,                 \* "articles" | "digest" | "essay": which packer runs, and analysisFileType
    budget,               \* config.maxArticleContentLengthForGemini
    articlesToProcess,    \* input of aggregateArticleDataForSource
    processedSourcesData, \* input of aggregateAnalysisFiles
    idx,                  \* position of the for..of loop (next unit, 1-based)
    combinedContent,      \* combinedContent / combinedAnalysisInput: sequence of segments
    currentLength,        \* currentLength / combinedLength
    includedCount,        \* includedCount / sourcesIncludedCount
    ppc,                  \* "loop" | "check" | "done"
    presult,              \* "pending" | "null" | "content"
    run,                  \* 1 for the first run of the packer on the input, 2 for the second
    firstRun,             \* what the first run returned
    \* ---- gate (gemini-module.js), one entry per invocation ----
    options,              \* the options argument of each call
    gpc,                  \* "idle" | "entered" | "calling" | "waiting" | "returned" | "thrown"
    retries,              \* let retries
    attempts,             \* number of generateContentStream invocations so far
    rateLimited,          \* number of 429-classified failures received so far
    lastWait,             \* the last backoffTime waited (0: none yet)
    totalWait,            \* the sum of all backoffTime waited
    lastOutcome,          \* how the latest attempt ended: "none" | "ok" | "429" | "other"
    thrownError,          \* the error ask_gemini threw: "none" | "nokey" | "429" | "other"
    \* ---- one source directory of the artifact store (main.js writers, its readers) ----
    storeDir,             \* the analysis documents the directory holds
    storeClock,           \* the latest value Date.now() returned to a writer
    storeWrites,          \* number of documents written so far
    everWritten,          \* every document any writer has written
    lastWritten,          \* the document the latest write produced
    looked,               \* the latest lookup in the directory as it is: who made it, for which kind
    selected,             \* what that lookup read, if aggregateAnalysisFiles made it
    viewed,               \* what that lookup read, if the viewer made it
    \* ---- orchestrator (main.js: main, rerunSpecificAnalysis) ----
    mode,                 \* "full", or argv.rerunTask
    target,               \* argv.directory of a rerun
    settings,             \* config.js: what the keys and paths of the configuration are
    registry,             \* sourceUrlsFromFile
    rpc,                  \* where the orchestrator stands
    si,                   \* position of the loop over sourceUrlsFromFile (1-based)
    articleUrls,          \* const articleUrls of the current source
    ui,                   \* position of the capture / extraction loop (1-based)
    scrapedArticlePaths,  \* const scrapedArticlePaths of the current source
    sourceArticlesData,   \* sourceArticlesData (full run) / articlesData (rerun)
    fileNames,            \* htmlFileNames / txtFileNames of a rerun
    digestSuccess,        \* const digestSuccess of the current source
    allProcessedSourcesData,
    fs,                   \* the output base directory: source directories and their files
    awaiting,             \* the orchestrator is suspended on a call it awaits
    rendererCalls,        \* scraper calls in flight
    generatorCalls,       \* ask_gemini calls in flight
    \* ---- what happened, recorded for the properties ----
    emptyAt,              \* per registry entry: the stage that left it without output
    stages,               \* per registry entry: the stages run for it
    captureLog,           \* capture attempts of the current source, in order
    extractLog,           \* extraction attempts of the current source or rerun, in order
    handed,               \* the units the latest aggregateArticleDataForSource call got
    combinedUnits,        \* per kind: the documents aggregateAnalysisFiles read
    reported,             \* the error a rerun reported with console.error, if any
    generated,            \* the last synthesis call that returned, and with what
    \* ---- extractArticleUrls, from the response to the list returned ----
    module,               \* "main" | "cerebras": whose extractArticleUrls runs
    response,             \* what the Generator answered: "none" or a sequence of lines
    uniqueUrls,           \* the list returned
    dpc                   \* "call" | "done"

packVars == <<task, budget, articlesToProcess, processedSourcesData, idx,
              combinedContent, currentLength, includedCount, ppc, presult,
              run, firstRun>>
gateVars == <<options, gpc, retries, attempts, rateLimited, lastWait,
              totalWait, lastOutcome, thrownError>>
storeVars == <<storeDir, storeClock, storeWrites, everWritten, lastWritten,
               looked, selected, viewed>>
runVars == <<mode, target, settings, registry, rpc, si, articleUrls, ui,
             scrapedArticlePaths, sourceArticlesData, fileNames, digestSuccess,
             allProcessedSourcesData, fs, awaiting, rendererCalls, generatorCalls,
             emptyAt, stages, captureLog, extractLog, handed, combinedUnits,
             reported, generated>>
discoverVars == <<module, response, uniqueUrls, dpc>>
vars == <<packVars, gateVars, storeVars, runVars, discoverVars>>

\* what a step of one component leaves alone
outsidePack == <<gateVars, storeVars, runVars, discoverVars>>
outsideGate == <<packVars, storeVars, runVars, discoverVars>>
outsideStore == <<packVars, gateVars, runVars, discoverVars>>
outsideRun == <<gateVars, storeVars, discoverVars>>
outsideDiscover == <<packVars, gateVars, storeVars, runVars>>

----------------------------------------------------------------------------
(* Generic helpers *)

Min(a, b) == IF a <= b THEN a ELSE b

RECURSIVE SumLen(_)
\* String.length of a string given as its sequence of segments
SumLen(s) == IF s = <<>> THEN 0 ELSE Head(s).len + SumLen(Tail(s))

SeqsUpTo(S, n) == UNION {[1..k -> S] : k \in 0..n}

\* every order in which a listing can return the members of S
Orderings(S) ==
    {o \in [1..Cardinality(S) -> S] : \A i, j \in 1..Cardinality(S) : i # j => o[i] # o[j]}

\* a lookup that found no file, a write that has not happened
NoFile == [kind |-> "none"]

NoLookup == [by |-> "none", kind |-> "none"]

\* the artifact store is not in use while another component is studied
StoreIdle ==
    /\ storeDir = {}
    /\ storeClock = 0
    /\ storeWrites = 0
    /\ everWritten = {}
    /\ lastWritten = NoFile
    /\ looked = NoLookup
    /\ selected = NoFile
    /\ viewed = NoFile

NoTarget == [level |-> "none", name |-> "none"]
NoUnits == [stage |-> "none", dir |-> "none", units |-> <<>>]
NoReport == [error |-> "none", names |-> <<>>]
NoGenerated == [scope |-> "none", kind |-> "none", outcome |-> "none"]

\* extractArticleUrls is not in use while another component is studied
DiscoverIdle ==
    /\ module = "main"
    /\ response = [status |-> "none", lines |-> <<>>]
    /\ uniqueUrls = <<>>
    /\ dpc = "done"

\* what validateConfig looks at: the Gemini key is set, the two extension
\* paths and the source list file exist (the paths always have a value, from
\* the environment or the default)
\* config.scraper.outputBaseDir (process.env.OUTPUT_DIR || 'daily_news_data')
OutputBaseDirs == {"daily_news_data", "daily_news"}

Settings ==
    [apiKey : BOOLEAN, bypassPaywallsExtensionPath : BOOLEAN,
     ublockLiteExtensionPath : BOOLEAN, sourceListFile : BOOLEAN,
     outputBaseDir : OutputBaseDirs]

CompleteSettings ==
    [apiKey |-> TRUE, bypassPaywallsExtensionPath |-> TRUE,
     ublockLiteExtensionPath |-> TRUE, sourceListFile |-> TRUE,
     outputBaseDir |-> "daily_news_data"]

\* (variant: only the key is looked at)
validateKeyOnly(c) == c.apiKey

\* missingKeys.length > 0 ? false : true
validateConfig(c) ==
    LET missingKeys ==
            (IF ~c.apiKey THEN {"GEMINI_API_KEY"} ELSE {})
                \cup (IF ~c.bypassPaywallsExtensionPath
                      THEN {"BYPASS_PAYWALLS_EXTENSION_PATH"} ELSE {})
                \cup (IF ~c.ublockLiteExtensionPath
                      THEN {"UBLOCK_LITE_EXTENSION_PATH"} ELSE {})
                \cup (IF ~c.sourceListFile THEN {"Source list file"} ELSE {})
    IN missingKeys = {}

\* validateConfig() as main calls it
configOk == validateConfig(settings)

\* the orchestrator is not in use while another component is studied
RunIdle ==
    /\ mode = "full"
    /\ target = NoTarget
    /\ settings = CompleteSettings
    /\ registry = <<>>
    /\ rpc = "done"
    /\ si = 1
    /\ articleUrls = <<>>
    /\ ui = 1
    /\ scrapedArticlePaths = <<>>
    /\ sourceArticlesData = <<>>
    /\ fileNames = <<>>
    /\ digestSuccess = FALSE
    /\ allProcessedSourcesData = <<>>
    /\ fs = <<>>
    /\ awaiting = FALSE
    /\ rendererCalls = 0
    /\ generatorCalls = 0
    /\ emptyAt = <<>>
    /\ stages = <<>>
    /\ captureLog = <<>>
    /\ extractLog = <<>>
    /\ handed = NoUnits
    /\ combinedUnits = <<>>
    /\ reported = NoReport
    /\ generated = NoGenerated

----------------------------------------------------------------------------
(* Bounds of the model *)

MaxUnits == 3        \* longest articlesToProcess explored
MaxSources == 2      \* longest processedSourcesData explored
MaxWrites == 3       \* most documents written into the source directory
MaxLines == 3        \* most lines of a response to the URL extraction prompt

(* Program constants: lengths of the literal parts of the template strings *)

maxArticleContentLengthForGemini == 1800000
ArticlePreambleLen == 174
ArticleEntryOverhead == 60
HeadlineEntryOverhead == 100
FirstEntryOverhead == 83
FirstEntryPrefix == 1000
AnalysisPreambleOverhead == 87
SourceEntryOverhead == 61
TruncatedEntryOverhead == 101
PlainFileNameOverhead == 23
StampedFileNameOverhead == 37

(* Inputs explored *)

Budgets == {100, 300, 500, 1400, maxArticleContentLengthForGemini}
UrlLens == {20, 30}
TextLens == {0, 50, 1000, 2000000}
Articles == [url : UrlLens, text : TextLens]

TypeLen(type) == IF type = "digest" THEN 6 ELSE 5

\* a file of a source directory: the kind its name starts with, the timestamp
\* parseInt reads in its last '_' segment (0: none), the length of its content
DocFile(kind, ts, size) == [kind |-> kind, ts |-> ts, size |-> size]
DirListings ==
    { <<>>,
      <<DocFile("digest", 0, 50)>>,
      <<DocFile("digest", 0, 0), DocFile("essay", 0, 50)>>,
      <<DocFile("digest", 100, 50), DocFile("digest", 200, 2000), DocFile("essay", 100, 2000)>>,
      <<DocFile("essay", 200, 50), DocFile("digest", 200, 2000), DocFile("digest", 100, 50)>>,
      <<DocFile("essay", 100, 50)>> }
SourceNameLens == {7}
\* dir: "ok" (runDir exists and can be read), "missing" (existsSync is false),
\* "error" (readdir or readFile throws)
SourcesData ==
    [sourceName : SourceNameLens, dir : {"ok"}, files : DirListings]
    \cup [sourceName : SourceNameLens, dir : {"missing", "error"}, files : {<<>>}]

----------------------------------------------------------------------------
(* Template strings of aggregateArticleDataForSource, as segments *)

Segment(kind, unit, len) == [kind |-> kind, unit |-> unit, len |-> len]

ArticlePreamble == Segment("preamble", 0, ArticlePreambleLen)

articleEntry(i, article) ==
    Segment("full", i, ArticleEntryOverhead + article.url + article.text)

headlineEntry(i, article) ==
    Segment("headline", i, HeadlineEntryOverhead + article.url)

\* firstArticleText.substring(0, 1000)
Substring1000(textLen) == Min(textLen, FirstEntryPrefix)

firstEntry(article) ==
    Segment("forced", 1, FirstEntryOverhead + article.url + Substring1000(article.text))


----------------------------------------------------------------------------
(* The budget test every append of the loops is guarded by *)

\* (variant: the test forgets what is already accumulated)
FitsBudgetIgnoresLength(length, entryLength) == entryLength <= budget

FitsBudget(length, entryLength) == length + entryLength <= budget

\* (variant: the forced first entry is appended untested)
FirstEntryAlwaysFits(entry) == TRUE

\* the test that guards the forced first entry
FirstEntryFits(entry) == entry.len <= budget

----------------------------------------------------------------------------
(* aggregateArticleDataForSource(articlesToProcess) *)

InArticleLoop ==
    /\ task = "articles"
    /\ ppc = "loop"
    /\ idx <= Len(articlesToProcess)

ArticleLoopDone ==
    /\ task = "articles"
    /\ ppc = "loop"
    /\ idx > Len(articlesToProcess)

packInputs == <<task, budget, articlesToProcess, processedSourcesData, run, firstRun>>

\* the full entry fits: it is appended and counted
AggregateArticleFull ==
    /\ InArticleLoop
    /\ LET entry == articleEntry(idx, articlesToProcess[idx]) IN
        /\ FitsBudget(currentLength, entry.len)
        /\ combinedContent' = Append(combinedContent, entry)
        /\ currentLength' = currentLength + entry.len
        /\ includedCount' = includedCount + 1
    /\ idx' = idx + 1
    /\ UNCHANGED <<ppc, presult, packInputs, outsidePack>>

\* (variant: the marker entry is counted like a full entry)
AggregateArticleHeadlineCounted ==
    /\ InArticleLoop
    /\ LET entry == articleEntry(idx, articlesToProcess[idx])
           marker == headlineEntry(idx, articlesToProcess[idx]) IN
        /\ ~FitsBudget(currentLength, entry.len)
        /\ FitsBudget(currentLength, marker.len)
        /\ combinedContent' = Append(combinedContent, marker)
        /\ currentLength' = currentLength + marker.len
    /\ includedCount' = includedCount + 1
    /\ idx' = idx + 1
    /\ UNCHANGED <<ppc, presult, packInputs, outsidePack>>

\* the full entry does not fit, the marker entry does: appended, not counted
AggregateArticleHeadline ==
    /\ InArticleLoop
    /\ LET entry == articleEntry(idx, articlesToProcess[idx])
           marker == headlineEntry(idx, articlesToProcess[idx]) IN
        /\ ~FitsBudget(currentLength, entry.len)
        /\ FitsBudget(currentLength, marker.len)
        /\ combinedContent' = Append(combinedContent, marker)
        /\ currentLength' = currentLength + marker.len
    /\ idx' = idx + 1
    /\ UNCHANGED <<includedCount, ppc, presult, packInputs, outsidePack>>

\* neither fits: nothing is appended for this article
AggregateArticleSkip ==
    /\ InArticleLoop
    /\ LET entry == articleEntry(idx, articlesToProcess[idx])
           marker == headlineEntry(idx, articlesToProcess[idx]) IN
        /\ ~FitsBudget(currentLength, entry.len)
        /\ ~FitsBudget(currentLength, marker.len)
    /\ idx' = idx + 1
    /\ UNCHANGED <<combinedContent, currentLength, includedCount, ppc, presult,
                   packInputs, outsidePack>>

\* "Handle edge case where all articles were too long"
ForceFirstApplies ==
    /\ includedCount = 0
    /\ Len(articlesToProcess) > 0
    /\ FirstEntryFits(firstEntry(articlesToProcess[1]))

AggregateForceFirst ==
    /\ ArticleLoopDone
    /\ ForceFirstApplies
    /\ combinedContent' = Append(combinedContent, firstEntry(articlesToProcess[1]))
    /\ includedCount' = includedCount + 1
    /\ ppc' = "check"
    /\ UNCHANGED <<idx, currentLength, presult, packInputs, outsidePack>>

AggregateNoForce ==
    /\ ArticleLoopDone
    /\ ~ForceFirstApplies
    /\ ppc' = "check"
    /\ UNCHANGED <<idx, combinedContent, currentLength, includedCount, presult,
                   packInputs, outsidePack>>

\* if (includedCount === 0) return null
AggregateReturnNull ==
    /\ task = "articles"
    /\ ppc = "check"
    /\ includedCount = 0
    /\ ppc' = "done"
    /\ presult' = "null"
    /\ UNCHANGED <<idx, combinedContent, currentLength, includedCount,
                   packInputs, outsidePack>>

\* return combinedContent
AggregateReturnContent ==
    /\ task = "articles"
    /\ ppc = "check"
    /\ includedCount > 0
    /\ ppc' = "done"
    /\ presult' = "content"
    /\ UNCHANGED <<idx, combinedContent, currentLength, includedCount,
                   packInputs, outsidePack>>


----------------------------------------------------------------------------
(* aggregateAnalysisFiles(processedSourcesData, analysisFileType) *)

AnalysisPreamble == Segment("preamble", 0, AnalysisPreambleOverhead + TypeLen(task))

\* files.filter(f => f.startsWith(pattern) && f.endsWith('.md'))
matchingFilter(files, type) == SelectSeq(files, LAMBDA f : f.kind = type)

RECURSIVE InsertByTime(_, _)
\* f is placed after every file whose time is not smaller (the sort is stable)
InsertByTime(f, sorted) ==
    IF sorted = <<>> THEN <<f>>
    ELSE IF Head(sorted).ts >= f.ts THEN <<Head(sorted)>> \o InsertByTime(f, Tail(sorted))
    ELSE <<f>> \o sorted

RECURSIVE SortByTimeDesc(_)
\* .sort((a, b) => timeB - timeA)
SortByTimeDesc(files) ==
    IF files = <<>> THEN <<>>
    ELSE InsertByTime(files[Len(files)], SortByTimeDesc(SubSeq(files, 1, Len(files) - 1)))

matchingFiles(sourceData, type) ==
    SortByTimeDesc(matchingFilter(sourceData.files, type))

\* fileContent is set only when the directory is there, can be read and holds a match
FileWasRead(sourceData, type) ==
    /\ sourceData.dir = "ok"
    /\ Len(matchingFiles(sourceData, type)) > 0

fileNameFound(sourceData, type) == matchingFiles(sourceData, type)[1]

\* length of `${type}_${sourceName}_${date}_${model}[_${timestamp}].md`
FileNameLen(file, sourceData) ==
    TypeLen(file.kind) + sourceData.sourceName
        + (IF file.ts = 0 THEN PlainFileNameOverhead ELSE StampedFileNameOverhead)

\* if (fileContent): null and the empty string are both falsy
FileContentTruthy(sourceData, type) ==
    /\ FileWasRead(sourceData, type)
    /\ fileNameFound(sourceData, type).size > 0

sourceEntry(i, sourceData, type) ==
    LET file == fileNameFound(sourceData, type) IN
    Segment("full", i, SourceEntryOverhead + 2 * sourceData.sourceName
                          + FileNameLen(file, sourceData) + file.size)

truncatedEntry(i, sourceData, type) ==
    LET file == fileNameFound(sourceData, type) IN
    Segment("headline", i, TruncatedEntryOverhead + 2 * sourceData.sourceName
                              + FileNameLen(file, sourceData))

InAnalysisLoop ==
    /\ task \in {"digest", "essay"}
    /\ ppc = "loop"
    /\ idx <= Len(processedSourcesData)

\* no directory, no matching file, a read error or empty content: next source
AnalysisNoContent ==
    /\ InAnalysisLoop
    /\ ~FileContentTruthy(processedSourcesData[idx], task)
    /\ idx' = idx + 1
    /\ UNCHANGED <<combinedContent, currentLength, includedCount, ppc, presult,
                   packInputs, outsidePack>>

AnalysisFull ==
    /\ InAnalysisLoop
    /\ FileContentTruthy(processedSourcesData[idx], task)
    /\ LET entry == sourceEntry(idx, processedSourcesData[idx], task) IN
        /\ FitsBudget(currentLength, entry.len)
        /\ combinedContent' = Append(combinedContent, entry)
        /\ currentLength' = currentLength + entry.len
        /\ includedCount' = includedCount + 1
    /\ idx' = idx + 1
    /\ UNCHANGED <<ppc, presult, packInputs, outsidePack>>

AnalysisTruncated ==
    /\ InAnalysisLoop
    /\ FileContentTruthy(processedSourcesData[idx], task)
    /\ LET entry == sourceEntry(idx, processedSourcesData[idx], task)
           marker == truncatedEntry(idx, processedSourcesData[idx], task) IN
        /\ ~FitsBudget(currentLength, entry.len)
        /\ FitsBudget(currentLength, marker.len)
        /\ combinedContent' = Append(combinedContent, marker)
        /\ currentLength' = currentLength + marker.len
    /\ idx' = idx + 1
    /\ UNCHANGED <<includedCount, ppc, presult, packInputs, outsidePack>>

AnalysisSkip ==
    /\ InAnalysisLoop
    /\ FileContentTruthy(processedSourcesData[idx], task)
    /\ LET entry == sourceEntry(idx, processedSourcesData[idx], task)
           marker == truncatedEntry(idx, processedSourcesData[idx], task) IN
        /\ ~FitsBudget(currentLength, entry.len)
        /\ ~FitsBudget(currentLength, marker.len)
    /\ idx' = idx + 1
    /\ UNCHANGED <<combinedContent, currentLength, includedCount, ppc, presult,
                   packInputs, outsidePack>>

AnalysisLoopDone ==
    /\ task \in {"digest", "essay"}
    /\ ppc = "loop"
    /\ idx > Len(processedSourcesData)

\* if (sourcesIncludedCount === 0) return null
AnalysisReturnNull ==
    /\ AnalysisLoopDone
    /\ includedCount = 0
    /\ ppc' = "done"
    /\ presult' = "null"
    /\ UNCHANGED <<idx, combinedContent, currentLength, includedCount,
                   packInputs, outsidePack>>

\* return combinedAnalysisInput
AnalysisReturnContent ==
    /\ AnalysisLoopDone
    /\ includedCount > 0
    /\ ppc' = "done"
    /\ presult' = "content"
    /\ UNCHANGED <<idx, combinedContent, currentLength, includedCount,
                   packInputs, outsidePack>>

----------------------------------------------------------------------------
(* The caller runs the packer a second time on the same input (a rerun task *)
(* on unchanged artifacts)                                                  *)

Preamble == IF task = "articles" THEN ArticlePreamble ELSE AnalysisPreamble

Returned == [result |-> presult, payload |-> combinedContent, count |-> includedCount]

\* (variant: currentLength lives outside the function and is not reset)
PackAgainKeepsLength ==
    /\ ppc = "done"
    /\ run = 1
    /\ run' = 2
    /\ firstRun' = Returned
    /\ idx' = 1
    /\ combinedContent' = <<Preamble>>
    /\ includedCount' = 0
    /\ ppc' = "loop"
    /\ presult' = "pending"
    /\ UNCHANGED <<currentLength, task, budget, articlesToProcess, processedSourcesData,
                   outsidePack>>

PackAgain ==
    /\ ppc = "done"
    /\ run = 1
    /\ run' = 2
    /\ firstRun' = Returned
    /\ idx' = 1
    /\ combinedContent' = <<Preamble>>
    /\ currentLength' = Preamble.len
    /\ includedCount' = 0
    /\ ppc' = "loop"
    /\ presult' = "pending"
    /\ UNCHANGED <<task, budget, articlesToProcess, processedSourcesData, outsidePack>>

NoRun == [result |-> "pending", payload |-> <<>>, count |-> 0]

\* the gate is not in use while the packer is studied
GateIdle ==
    /\ options = <<>>
    /\ gpc = <<>>
    /\ retries = <<>>
    /\ attempts = <<>>
    /\ rateLimited = <<>>
    /\ lastWait = <<>>
    /\ totalWait = <<>>
    /\ lastOutcome = <<>>
    /\ thrownError = <<>>

PackInit ==
    /\ task \in {"articles", "digest", "essay"}
    /\ budget \in Budgets
    /\ articlesToProcess \in
         (IF task = "articles" THEN SeqsUpTo(Articles, MaxUnits) ELSE {<<>>})
    /\ processedSourcesData \in
         (IF task = "articles" THEN {<<>>} ELSE SeqsUpTo(SourcesData, MaxSources))
    /\ idx = 1
    /\ combinedContent = <<Preamble>>
    /\ currentLength = Preamble.len
    /\ includedCount = 0
    /\ ppc = "loop"
    /\ presult = "pending"
    /\ run = 1
    /\ firstRun = NoRun
    /\ GateIdle
    /\ StoreIdle
    /\ RunIdle
    /\ DiscoverIdle

PackNext ==
    \/ AggregateArticleFull
    \/ AggregateArticleHeadline
    \/ AggregateArticleSkip
    \/ AggregateForceFirst
    \/ AggregateNoForce
    \/ AggregateReturnNull
    \/ AggregateReturnContent
    \/ AnalysisNoContent
    \/ AnalysisFull
    \/ AnalysisTruncated
    \/ AnalysisSkip
    \/ AnalysisReturnNull
    \/ AnalysisReturnContent
    \/ PackAgain

SpecPack == PackInit /\ [][PackNext]_vars

----------------------------------------------------------------------------
(* ask_gemini(question, options): the rate-limited call gate *)

DefaultMaxRetries == 100
DefaultInitialBackoff == 1000

\* an optional numeric property of the options object
NotGiven == [given |-> FALSE, val |-> 0]
Given(n) == [given |-> TRUE, val |-> n]

\* options.x || d : undefined and 0 are falsy
OrDefault(opt, d) == IF opt.given /\ opt.val # 0 THEN opt.val ELSE d

\* const maxRetries = options.maxRetries || 100
maxRetries(c) == OrDefault(options[c].maxRetries, DefaultMaxRetries)

\* const initialBackoff = options.initialBackoff || 1000
initialBackoff(c) == OrDefault(options[c].initialBackoff, DefaultInitialBackoff)

\* (variant: every error is taken for a rate limit)
IsRateLimitAlways(error) == TRUE

\* error.message.includes("429")
IsRateLimit(error) == error = "429"

\* (variant: one retry too many)
ShouldRetryOnceMore(c, error) == IsRateLimit(error) /\ retries[c] <= maxRetries(c)

\* (variant: no bound on the retries)
ShouldRetryUnbounded(c, error) == IsRateLimit(error)

\* error.message.includes("429") && retries < maxRetries
ShouldRetry(c, error) == IsRateLimit(error) /\ retries[c] < maxRetries(c)

\* (variant: the backoff is computed before retries is incremented)
backoffTimeBeforeIncrement(c, n) == initialBackoff(c) * (n - 1)

\* const backoffTime = initialBackoff * retries, n being retries after retries++
backoffTime(c, n) == initialBackoff(c) * n

\* retries++, in the scope the counter is declared in: inside ask_gemini
\* (variant: the counter is declared at module level and shared by all calls)
IncrementSharedRetries(c) == [d \in DOMAIN retries |-> retries[d] + 1]

IncrementRetries(c) == [retries EXCEPT ![c] = @ + 1]

\* ask_gemini is entered without an API key: it throws before any request
GateNoKey(c) ==
    /\ gpc[c] = "idle"
    /\ ~options[c].hasKey
    /\ gpc' = [gpc EXCEPT ![c] = "thrown"]
    /\ thrownError' = [thrownError EXCEPT ![c] = "nokey"]
    /\ UNCHANGED <<options, retries, attempts, rateLimited, lastWait, totalWait,
                   lastOutcome, outsideGate>>

\* ask_gemini is entered: retries = 0 and the first request is sent
GateStart(c) ==
    /\ gpc[c] = "idle"
    /\ options[c].hasKey
    /\ gpc' = [gpc EXCEPT ![c] = "calling"]
    /\ retries' = [retries EXCEPT ![c] = 0]
    /\ attempts' = [attempts EXCEPT ![c] = 1]
    /\ UNCHANGED <<options, rateLimited, lastWait, totalWait, lastOutcome,
                   thrownError, outsideGate>>

\* the request succeeds: return fullResponse
GateSuccess(c) ==
    /\ gpc[c] = "calling"
    /\ gpc' = [gpc EXCEPT ![c] = "returned"]
    /\ lastOutcome' = [lastOutcome EXCEPT ![c] = "ok"]
    /\ UNCHANGED <<options, retries, attempts, rateLimited, lastWait, totalWait,
                   thrownError, outsideGate>>

\* the catch block, for the error the request failed with
GateCatch(c, error) ==
    /\ gpc[c] = "calling"
    /\ lastOutcome' = [lastOutcome EXCEPT ![c] = error]
    /\ rateLimited' = [rateLimited EXCEPT ![c] = @ + (IF IsRateLimit(error) THEN 1 ELSE 0)]
    /\ IF ShouldRetry(c, error)
       THEN /\ retries' = IncrementRetries(c)
            /\ lastWait' = [lastWait EXCEPT ![c] = backoffTime(c, retries'[c])]
            /\ totalWait' = [totalWait EXCEPT ![c] = @ + backoffTime(c, retries'[c])]
            /\ gpc' = [gpc EXCEPT ![c] = "waiting"]
            /\ UNCHANGED thrownError
       ELSE /\ gpc' = [gpc EXCEPT ![c] = "thrown"]
            /\ thrownError' = [thrownError EXCEPT ![c] = error]
            /\ UNCHANGED <<retries, lastWait, totalWait>>
    /\ UNCHANGED <<options, attempts, outsideGate>>

GateRateLimited(c) == GateCatch(c, "429")

GateOtherError(c) == GateCatch(c, "other")

\* the backoff timer fires: the loop sends the next request
GateBackoffElapsed(c) ==
    /\ gpc[c] = "waiting"
    /\ gpc' = [gpc EXCEPT ![c] = "calling"]
    /\ attempts' = [attempts EXCEPT ![c] = @ + 1]
    /\ UNCHANGED <<options, retries, rateLimited, lastWait, totalWait, lastOutcome,
                   thrownError, outsideGate>>

GateStep(c) ==
    \/ GateNoKey(c)
    \/ GateStart(c)
    \/ GateSuccess(c)
    \/ GateRateLimited(c)
    \/ GateOtherError(c)
    \/ GateBackoffElapsed(c)

\* the packer is not in use while the gate is studied
PackIdle ==
    /\ task = "articles"
    /\ budget = maxArticleContentLengthForGemini
    /\ articlesToProcess = <<>>
    /\ processedSourcesData = <<>>
    /\ idx = 1
    /\ combinedContent = <<>>
    /\ currentLength = 0
    /\ includedCount = 0
    /\ ppc = "done"
    /\ presult = "pending"
    /\ run = 2
    /\ firstRun = NoRun

RetryOptions == {NotGiven, Given(0), Given(1), Given(2), Given(5)}
BackoffOptions == {NotGiven, Given(0), Given(500), Given(1000)}
GateOptions == [maxRetries : RetryOptions, initialBackoff : BackoffOptions, hasKey : BOOLEAN]

GateInitFor(calls, optionSet) ==
    /\ options \in [calls -> optionSet]
    /\ gpc = [c \in calls |-> "idle"]
    /\ retries = [c \in calls |-> 0]
    /\ attempts = [c \in calls |-> 0]
    /\ rateLimited = [c \in calls |-> 0]
    /\ lastWait = [c \in calls |-> 0]
    /\ totalWait = [c \in calls |-> 0]
    /\ lastOutcome = [c \in calls |-> "none"]
    /\ thrownError = [c \in calls |-> "none"]
    /\ PackIdle
    /\ StoreIdle
    /\ RunIdle
    /\ DiscoverIdle

(* One invocation, every outcome of every request *)

GateInit == GateInitFor({1}, GateOptions)

GateNext == GateStep(1)

SpecGate == GateInit /\ [][GateNext]_vars

\* a request that was sent ends, and a timer that was set fires
FairSpecGate == SpecGate /\ WF_vars(GateNext)

(* Two invocations in progress at the same time, interleaved at their awaits *)

ConcRetryOptions == {Given(1), Given(2)}
ConcBackoffOptions == {NotGiven, Given(500)}
ConcOptions == [maxRetries : ConcRetryOptions, initialBackoff : ConcBackoffOptions,
                hasKey : BOOLEAN]

ConcInit == GateInitFor({1, 2}, ConcOptions)

ConcNext == \E c \in {1, 2} : GateStep(c)

SpecGateConc == ConcInit /\ [][ConcNext]_vars


----------------------------------------------------------------------------
(* The packers as their callers see them: one call, from the arguments to   *)
(* the value returned                                                        *)

Packed(payload, length, count) == [payload |-> payload, length |-> length, count |-> count]

RECURSIVE articleLoop(_, _, _)
\* for (const article of articlesToProcess) { ... }, from the i-th article on
articleLoop(articles, i, st) ==
    IF i > Len(articles) THEN st
    ELSE LET entry == articleEntry(i, articles[i])
             marker == headlineEntry(i, articles[i]) IN
         IF FitsBudget(st.length, entry.len)
         THEN articleLoop(articles, i + 1,
                  Packed(Append(st.payload, entry), st.length + entry.len, st.count + 1))
         ELSE IF FitsBudget(st.length, marker.len)
         THEN articleLoop(articles, i + 1,
                  Packed(Append(st.payload, marker), st.length + marker.len, st.count))
         ELSE articleLoop(articles, i + 1, st)

aggregateArticleDataForSource(articles) ==
    LET st == articleLoop(articles, 1, Packed(<<ArticlePreamble>>, ArticlePreamble.len, 0))
        forced == /\ st.count = 0
                  /\ Len(articles) > 0
                  /\ FirstEntryFits(firstEntry(articles[1]))
        payload == IF forced THEN Append(st.payload, firstEntry(articles[1])) ELSE st.payload
        count == IF forced THEN st.count + 1 ELSE st.count
    IN [result |-> IF count = 0 THEN "null" ELSE "content",
        payload |-> payload, count |-> count]

AnalysisPreambleOf(type) == Segment("preamble", 0, AnalysisPreambleOverhead + TypeLen(type))

RECURSIVE analysisLoop(_, _, _, _)
\* for (const sourceData of processedSourcesData) { ... }, from the i-th source on
analysisLoop(sources, type, i, st) ==
    IF i > Len(sources) THEN st
    ELSE IF ~FileContentTruthy(sources[i], type)
    THEN analysisLoop(sources, type, i + 1, st)
    ELSE LET entry == sourceEntry(i, sources[i], type)
             marker == truncatedEntry(i, sources[i], type) IN
         IF FitsBudget(st.length, entry.len)
         THEN analysisLoop(sources, type, i + 1,
                  Packed(Append(st.payload, entry), st.length + entry.len, st.count + 1))
         ELSE IF FitsBudget(st.length, marker.len)
         THEN analysisLoop(sources, type, i + 1,
                  Packed(Append(st.payload, marker), st.length + marker.len, st.count))
         ELSE analysisLoop(sources, type, i + 1, st)

aggregateAnalysisFiles(sources, type) ==
    LET st == analysisLoop(sources, type, 1,
                  Packed(<<AnalysisPreambleOf(type)>>, AnalysisPreambleOf(type).len, 0))
    IN [result |-> IF st.count = 0 THEN "null" ELSE "content",
        payload |-> st.payload, count |-> st.count]

\* the step-by-step packer and the whole call return the same
WholeCallAgrees ==
    ppc = "done" =>
        Returned = (IF task = "articles"
                    THEN aggregateArticleDataForSource(articlesToProcess)
                    ELSE aggregateAnalysisFiles(processedSourcesData, task))

----------------------------------------------------------------------------
(* The analysis documents of one source directory: the writers of main.js,   *)
(* the lookup of aggregateAnalysisFiles and the lookup of the viewer          *)

\* the last '_' segment of the model suffix: 'default', or the end of
\* geminiModelOverride.replace(/[^a-zA-Z0-9]/g, '_')
SuffixTails ==
    { [text |-> "default", digits |-> FALSE, value |-> 0],
      [text |-> "flash", digits |-> FALSE, value |-> 0] }

\* a.split('_').pop().replace('.md', ''): the timestamp of a stamped name,
\* the end of the model suffix of a plain one
LastSegment(tail, stamp) ==
    IF stamp # 0 THEN [text |-> "stamp", digits |-> TRUE, value |-> stamp] ELSE tail

\* parseInt(segment, 10)
ParseInt(segment) ==
    IF segment.digits THEN [nan |-> FALSE, value |-> segment.value]
    ELSE [nan |-> TRUE, value |-> 0]

\* parseInt(...) || 0: NaN and 0 are falsy
TimeOf(tail, stamp) ==
    LET parsed == ParseInt(LastSegment(tail, stamp)) IN
    IF parsed.nan \/ parsed.value = 0 THEN 0 ELSE parsed.value

\* the file `${kind}_${sourceName}_${date}_${suffix}[_${stamp}].md` (stamp 0: a
\* plain name) holding the gen-th content written
NamedDoc(kind, tail, stamp, size, gen) ==
    [kind |-> kind, ts |-> TimeOf(tail, stamp), size |-> size,
     tail |-> tail.text, stamp |-> stamp, gen |-> gen]

SameName(f, g) == f.kind = g.kind /\ f.tail = g.tail /\ f.stamp = g.stamp

\* fs.writeFile(outputPath, ...): creates the file or replaces its content
writeFile(dir, file) == {f \in dir : ~SameName(f, file)} \cup {file}

StoreWrite(file) ==
    /\ storeWrites < MaxWrites
    /\ storeDir' = writeFile(storeDir, file)
    /\ storeWrites' = storeWrites + 1
    /\ everWritten' = everWritten \cup {file}
    /\ lastWritten' = file
    /\ looked' = NoLookup
    /\ selected' = NoFile
    /\ viewed' = NoFile
    /\ UNCHANGED outsideStore

\* a full run writes digest_/essay_${sourceName}_${dateFolder}_${modelUsedSuffix}.md
StoreFullRunWrite ==
    \E kind \in {"digest", "essay"}, tail \in SuffixTails :
        /\ StoreWrite(NamedDoc(kind, tail, 0, 50, storeWrites + 1))
        /\ UNCHANGED storeClock

\* a rerun writes ..._${modelSuffix}_${Date.now()}.md
StoreRerunWrite ==
    \E kind \in {"digest", "essay"}, tail \in SuffixTails :
        /\ storeClock' = storeClock + 100
        /\ StoreWrite(NamedDoc(kind, tail, storeClock', 50, storeWrites + 1))

\* the directory as the packer's lookup sees it
AsSourceData(files) == [sourceName |-> 7, dir |-> "ok", files |-> files]

\* files.find(file => file.startsWith(baseNamePattern) && file.endsWith('.md'))
findFirst(files, kind) ==
    IF matchingFilter(files, kind) = <<>> THEN NoFile
    ELSE matchingFilter(files, kind)[1]

\* a lookup that takes the first match of the listing, whatever its timestamp
latestByListingOrder(files, kind) == findFirst(files, kind)

\* matchingFiles[0] of aggregateAnalysisFiles, if there is one
latest(files, kind) ==
    IF FileWasRead(AsSourceData(files), kind)
    THEN fileNameFound(AsSourceData(files), kind)
    ELSE NoFile

\* the lookup of aggregateAnalysisFiles, on whatever order readdir returns
StoreLatest ==
    \E kind \in {"digest", "essay"}, order \in Orderings(storeDir) :
        /\ looked' = [by |-> "aggregateAnalysisFiles", kind |-> kind]
        /\ selected' = latest(order, kind)
        /\ viewed' = NoFile
        /\ UNCHANGED <<storeDir, storeClock, storeWrites, everWritten, lastWritten,
                       outsideStore>>

\* findAndReadMarkdown of the viewer, on whatever order readdir returns
StoreView ==
    \E kind \in {"digest", "essay"}, order \in Orderings(storeDir) :
        /\ looked' = [by |-> "findAndReadMarkdown", kind |-> kind]
        /\ viewed' = findFirst(order, kind)
        /\ selected' = NoFile
        /\ UNCHANGED <<storeDir, storeClock, storeWrites, everWritten, lastWritten,
                       outsideStore>>

StoreInit ==
    /\ StoreIdle
    /\ PackIdle
    /\ GateIdle
    /\ RunIdle
    /\ DiscoverIdle

StoreNext ==
    \/ StoreFullRunWrite
    \/ StoreRerunWrite
    \/ StoreLatest
    \/ StoreView

SpecStore == StoreInit /\ [][StoreNext]_vars


----------------------------------------------------------------------------
(* The orchestrator: main (full run) and rerunSpecificAnalysis, one process, *)
(* suspended at each call it awaits.  The Renderer (scraper) and the         *)
(* Generator (ask_gemini) are seen from the caller: a call is issued, then   *)
(* returns with one of its outcomes.                                         *)

(* Source registry *)

SourceNames == {"a", "b"}

SourceUrl(hostname) == [valid |-> TRUE, hostname |-> hostname]
\* a registry line new URL() rejects
BadSourceUrl == [valid |-> FALSE, hostname |-> <<>>]

\* hostname.replace(/^www\.|^static\./g, '').split('.')[0]
sourceNameOf(hostname) ==
    IF Head(hostname) \in {"www", "static"} THEN hostname[2] ELSE hostname[1]

\* two URLs of the same site, one of another
SiteA == SourceUrl(<<"www", "a", "com">>)
SiteAGain == SourceUrl(<<"a", "com">>)
SiteB == SourceUrl(<<"static", "b", "org">>)

Registries ==
    { <<>>, <<SiteA>>, <<SiteA, SiteB>>, <<BadSourceUrl, SiteA>>, <<SiteA, SiteAGain>> }

(* Article URLs and the files they are saved under *)

\* an article URL, by the characters of its path
ArticleUrl(path) == [path |-> path, len |-> 14 + Len(path)]

\* urlToFilename: path separators become '_'
urlToFilename(url) ==
    [i \in 1..Len(url.path) |-> IF url.path[i] = "/" THEN "_" ELSE url.path[i]]

UrlX == ArticleUrl(<<"x">>)
UrlY == ArticleUrl(<<"y">>)
UrlXY == ArticleUrl(<<"x", "/", "y">>)
\* .../x_y, a different address with the file name of .../x/y
UrlX_Y == ArticleUrl(<<"x", "_", "y">>)

\* what extractArticleUrls can return for the page of a source
Links(sourceName) ==
    IF sourceName = "a"
    THEN { <<>>, <<UrlX>>, <<UrlY, UrlX>>, <<UrlX, UrlY, UrlXY>>, <<UrlXY, UrlX_Y>> }
    ELSE { <<>>, <<UrlY>> }

(* The output base directory *)

DefaultTail == [text |-> "default", digits |-> FALSE, value |-> 0]

EmptyFs ==
    [made |-> [n \in SourceNames |-> FALSE],
     parsedTextDir |-> [n \in SourceNames |-> FALSE],
     raw |-> [n \in SourceNames |-> {}],
     txt |-> [n \in SourceNames |-> {}],
     docs |-> [n \in SourceNames |-> {}],
     combined |-> {},
     order |-> [n \in SourceNames |-> <<>>]]

HtmlFile(url) == [file |-> urlToFilename(url), of |-> url.path]
TxtFile(file, of) == [file |-> file, of |-> of, size |-> 50]

\* what an earlier full run of the same date left: source a processed (its
\* articles discovered in the order y, x), source b without a page
AfterFullRun ==
    [made |-> [n \in SourceNames |-> TRUE],
     parsedTextDir |-> [n \in SourceNames |-> TRUE],
     raw |-> [n \in SourceNames |-> IF n = "a" THEN {HtmlFile(UrlX), HtmlFile(UrlY)} ELSE {}],
     txt |-> [n \in SourceNames |->
                 IF n = "a" THEN {TxtFile(urlToFilename(UrlX), UrlX.path),
                                  TxtFile(urlToFilename(UrlY), UrlY.path)} ELSE {}],
     docs |-> [n \in SourceNames |->
                 IF n = "a" THEN {NamedDoc("digest", DefaultTail, 0, 50, 0),
                                  NamedDoc("essay", DefaultTail, 0, 50, 0)} ELSE {}],
     combined |-> {NamedDoc("daily_digest", DefaultTail, 0, 50, 0),
                   NamedDoc("analysis_essay", DefaultTail, 0, 50, 0)},
     order |-> [n \in SourceNames |->
                 IF n = "a" THEN <<urlToFilename(UrlY), urlToFilename(UrlX)>> ELSE <<>>]]

\* the same after a rerun of source-essay on source a
AfterRerun ==
    [AfterFullRun EXCEPT !.docs["a"] = @ \cup {NamedDoc("essay", DefaultTail, 100, 50, 0)}]

\* what a full run left that ended in setupDirectories for source a, raw_html
\* made and the mkdir of parsed_text rejected
AfterFailedSetup == [EmptyFs EXCEPT !.made["a"] = TRUE]

Snapshots == {EmptyFs, AfterFullRun, AfterRerun, AfterFailedSetup}

\* Date.now() of this process: later than every stamp already in a name
Now(store) ==
    LET stamps == {0} \cup {f.stamp : f \in UNION {store.docs[n] : n \in SourceNames}}
                      \cup {f.stamp : f \in store.combined}
    IN (CHOOSE t \in stamps : \A u \in stamps : u <= t) + 100

(* Invocations *)

Modes == {"full", "extract-only", "source-digest", "source-essay",
          "combined-digest", "combined-essay"}

SourceDir(name) == [level |-> "source", name |-> name]
DateDir == [level |-> "date", name |-> "none"]
\* the output base directory itself, a subdirectory of a source directory,
\* and a directory that is not under the base
BaseDir == [level |-> "base", name |-> "none"]
RawHtmlDir(name) == [level |-> "sub", name |-> name]
OutsideDir == [level |-> "outside", name |-> "none"]
Targets == {SourceDir("a"), SourceDir("b"), DateDir, BaseDir, RawHtmlDir("a"), OutsideDir}

RunBudgets == {100, maxArticleContentLengthForGemini}

RunInit ==
    /\ mode \in Modes
    /\ target \in (IF mode = "full" THEN {NoTarget} ELSE Targets)
    \* (a full run does not look at the name of the base directory)
    /\ settings \in {c \in Settings : mode = "full" => c.outputBaseDir = "daily_news_data"}
    /\ registry \in (IF mode = "full" THEN Registries ELSE {<<>>})
    /\ fs \in Snapshots
    /\ rpc = "start"
    /\ si = 1
    /\ articleUrls = <<>>
    /\ ui = 1
    /\ scrapedArticlePaths = <<>>
    /\ sourceArticlesData = <<>>
    /\ fileNames = <<>>
    /\ digestSuccess = FALSE
    /\ allProcessedSourcesData = <<>>
    /\ awaiting = FALSE
    /\ rendererCalls = 0
    /\ generatorCalls = 0
    /\ emptyAt = [i \in 1..Len(registry) |-> "none"]
    /\ stages = [i \in 1..Len(registry) |-> {}]
    /\ captureLog = <<>>
    /\ extractLog = <<>>
    /\ handed = NoUnits
    /\ combinedUnits = [kind \in {"digest", "essay"} |-> <<>>]
    /\ reported = NoReport
    /\ generated = NoGenerated
    \* the packers are called as whole calls, with the configured budget
    /\ task = "articles"
    /\ budget \in RunBudgets
    /\ articlesToProcess = <<>>
    /\ processedSourcesData = <<>>
    /\ idx = 1
    /\ combinedContent = <<>>
    /\ currentLength = 0
    /\ includedCount = 0
    /\ ppc = "done"
    /\ presult = "pending"
    /\ run = 2
    /\ firstRun = NoRun
    /\ GateIdle
    /\ StoreIdle
    /\ DiscoverIdle

(* Calls *)

runInputs == <<mode, target, settings, registry>>
runRest == <<runInputs, packVars, gateVars, storeVars, discoverVars>>
runFrame == <<runRest, reported, generated>>
sourceLocals == <<articleUrls, ui, scrapedArticlePaths, sourceArticlesData, digestSuccess>>
runLogs == <<captureLog, extractLog, handed, combinedUnits>>

\* (variant: the call is started and not awaited)
NotAwaited == FALSE

\* `await`: the caller goes on only when the call has returned
Awaited == TRUE

RendererCall ==
    /\ ~awaiting
    /\ awaiting' = Awaited
    /\ rendererCalls' = rendererCalls + 1
    /\ UNCHANGED generatorCalls

RendererReturns ==
    /\ awaiting
    /\ rendererCalls > 0
    /\ awaiting' = FALSE
    /\ rendererCalls' = rendererCalls - 1
    /\ UNCHANGED generatorCalls

GeneratorCall ==
    /\ ~awaiting
    /\ awaiting' = Awaited
    /\ generatorCalls' = generatorCalls + 1
    /\ UNCHANGED rendererCalls

GeneratorReturns ==
    /\ awaiting
    /\ generatorCalls > 0
    /\ awaiting' = FALSE
    /\ generatorCalls' = generatorCalls - 1
    /\ UNCHANGED rendererCalls

\* what a synthesis call of ask_gemini gives its caller: text, text that is
\* empty once cleaned, no text, or an error
GenOutcomes == {"text", "blank", "none", "throw"}
\* (variant: the response is written without the test for a falsy response)
WrittenUnlessThrown(outcome) == outcome # "throw"

\* generateSource*: a document is written unless the response is falsy or the call throws
IsWritten(outcome) == outcome \in {"text", "blank"}
WrittenSize(outcome) == IF outcome = "text" THEN 50 ELSE 0

(* Full run *)

InSourceLoop == mode = "full" /\ rpc = "source" /\ si <= Len(registry)
sourceName == sourceNameOf(registry[si].hostname)
Stage(stage) == stages' = [stages EXCEPT ![si] = @ \cup {stage}]

\* (variant: `break`, the loop over the registry ends here)
LeaveLoop(reason) ==
    /\ si' = Len(registry) + 1
    /\ rpc' = "source"
    /\ emptyAt' = [emptyAt EXCEPT ![si] = reason]

\* `continue`, or the end of the loop body: on to the next registry entry
NextSource(reason) ==
    /\ si' = si + 1
    /\ rpc' = "source"
    /\ emptyAt' = [emptyAt EXCEPT ![si] = reason]

\* if (!validateConfig()) process.exit(1)
RunConfigInvalid ==
    /\ rpc = "start"
    /\ ~configOk
    /\ rpc' = "exit"
    /\ UNCHANGED <<si, sourceLocals, fileNames, allProcessedSourcesData, fs, awaiting,
                   rendererCalls, generatorCalls, emptyAt, stages, runLogs, runFrame>>

RunStartFull ==
    /\ rpc = "start"
    /\ configOk
    /\ mode = "full"
    /\ rpc' = "source"
    /\ UNCHANGED <<si, sourceLocals, fileNames, allProcessedSourcesData, fs, awaiting,
                   rendererCalls, generatorCalls, emptyAt, stages, runLogs, runFrame>>

\* the locals of the loop body, as a new iteration finds them
FreshLocals ==
    /\ articleUrls' = <<>>
    /\ ui' = 1
    /\ scrapedArticlePaths' = <<>>
    /\ sourceArticlesData' = <<>>
    /\ digestSuccess' = FALSE
    /\ captureLog' = <<>>
    /\ extractLog' = <<>>
    /\ handed' = NoUnits

\* catch (e) { ... continue; } around new URL(sourceUrl)
RunSkipInvalidUrl ==
    /\ InSourceLoop
    /\ ~registry[si].valid
    /\ NextSource("url")
    /\ FreshLocals
    /\ UNCHANGED <<fileNames, allProcessedSourcesData, fs, awaiting, rendererCalls,
                   generatorCalls, stages, combinedUnits, runFrame>>

\* await setupDirectories(dateFolder, sourceName): the three mkdir succeed
RunSetupDirectories ==
    /\ InSourceLoop
    /\ registry[si].valid
    /\ fs' = [fs EXCEPT !.made[sourceName] = TRUE, !.parsedTextDir[sourceName] = TRUE]
    /\ rpc' = "scrapeSource"
    /\ FreshLocals
    /\ UNCHANGED <<si, fileNames, allProcessedSourcesData, awaiting, rendererCalls,
                   generatorCalls, emptyAt, stages, combinedUnits, runFrame>>

\* a mkdir of setupDirectories rejects: nothing in main catches it, and
\* main().catch ends the process with process.exit(1)
RunSetupDirectoriesThrows ==
    /\ InSourceLoop
    /\ registry[si].valid
    /\ \E rejected \in {"raw_html", "parsed_text"} :
          fs' = IF rejected = "parsed_text" THEN [fs EXCEPT !.made[sourceName] = TRUE] ELSE fs
    /\ rpc' = "aborted"
    /\ FreshLocals
    /\ UNCHANGED <<si, fileNames, allProcessedSourcesData, awaiting, rendererCalls,
                   generatorCalls, emptyAt, stages, combinedUnits, runFrame>>

\* Step 1: scrapeAndGetContent(sourceUrl)
RunScrapeSourceCall ==
    /\ mode = "full"
    /\ rpc = "scrapeSource"
    /\ RendererCall
    /\ Stage("render")
    /\ UNCHANGED <<rpc, si, sourceLocals, fileNames, allProcessedSourcesData, fs,
                   emptyAt, runLogs, runFrame>>

RunScrapeSourceReturn ==
    /\ mode = "full"
    /\ rpc = "scrapeSource"
    /\ RendererReturns
    /\ \E content \in BOOLEAN :
          IF content
          THEN rpc' = "discover" /\ UNCHANGED <<si, emptyAt>>
          ELSE NextSource("render")
    /\ UNCHANGED <<sourceLocals, fileNames, allProcessedSourcesData, fs, stages,
                   runLogs, runFrame>>

\* extractArticleUrls(sourceHtmlContent, sourceUrl)
RunDiscoverCall ==
    /\ mode = "full"
    /\ rpc = "discover"
    /\ GeneratorCall
    /\ Stage("discover")
    /\ UNCHANGED <<rpc, si, sourceLocals, fileNames, allProcessedSourcesData, fs,
                   emptyAt, runLogs, runFrame>>

\* it returns the URLs of the response, [] when the call failed
RunDiscoverReturn ==
    /\ mode = "full"
    /\ rpc = "discover"
    /\ GeneratorReturns
    /\ \E urls \in Links(sourceName) :
          /\ articleUrls' = urls
          /\ IF urls = <<>>
             THEN NextSource("discover") /\ UNCHANGED fs
             ELSE /\ rpc' = "capture"
                  /\ fs' = [fs EXCEPT !.order[sourceName] =
                                [i \in 1..Len(urls) |-> urlToFilename(urls[i])]]
                  /\ UNCHANGED <<si, emptyAt>>
    /\ UNCHANGED <<ui, scrapedArticlePaths, sourceArticlesData, digestSuccess, fileNames,
                   allProcessedSourcesData, stages, runLogs, runFrame>>

\* Step 2: scrapeAndSave(url, rawHtmlFilePath) for the next URL
RunCaptureCall ==
    /\ mode = "full"
    /\ rpc = "capture"
    /\ RendererCall
    /\ Stage("capture")
    /\ UNCHANGED <<rpc, si, sourceLocals, fileNames, allProcessedSourcesData, fs,
                   emptyAt, runLogs, runFrame>>

\* fs.writeFile(rawHtmlFilePath, ...) of the scraper
writeHtml(files, file) == {f \in files : f.file # file.file} \cup {file}

\* scrapedArticlePaths.push / sourceArticlesData.push
Push(list, item) == Append(list, item)

\* (variant: a unit that failed is taken up again)
NextUnitRetrying(position, ok) == IF ok THEN position + 1 ELSE position

\* (variant: every other unit is passed over)
NextUnitSkipping(position, ok) == position + 2

\* the for..of loop moves on whatever the outcome was
NextUnit(position, ok) == position + 1

\* its outcome; after the last URL, the check of scrapedArticlePaths.length
RunCaptureReturn ==
    /\ mode = "full"
    /\ rpc = "capture"
    /\ RendererReturns
    /\ \E success \in BOOLEAN :
          LET url == articleUrls[ui]
              paths == IF success
                       THEN Push(scrapedArticlePaths,
                                 [url |-> url, rawHtmlPath |-> urlToFilename(url)])
                       ELSE scrapedArticlePaths
          IN /\ fs' = IF success
                      THEN [fs EXCEPT !.raw[sourceName] = writeHtml(@, HtmlFile(url))]
                      ELSE fs
             /\ scrapedArticlePaths' = paths
             /\ captureLog' = Append(captureLog, [unit |-> ui, ok |-> success])
             /\ IF NextUnit(ui, success) <= Len(articleUrls)
                THEN ui' = NextUnit(ui, success) /\ UNCHANGED <<rpc, si, emptyAt>>
                ELSE IF paths = <<>>
                THEN ui' = 1 /\ NextSource("capture")
                ELSE ui' = 1 /\ rpc' = "extract" /\ UNCHANGED <<si, emptyAt>>
    /\ UNCHANGED <<articleUrls, sourceArticlesData, digestSuccess, fileNames,
                   allProcessedSourcesData, stages, extractLog, handed, combinedUnits,
                   runFrame>>

\* Step 3: extractTextFromHtml(article.rawHtmlPath, parsedTextFilePath)
RunExtractCall ==
    /\ mode = "full"
    /\ rpc = "extract"
    /\ GeneratorCall
    /\ Stage("extract")
    /\ UNCHANGED <<rpc, si, sourceLocals, fileNames, allProcessedSourcesData, fs,
                   emptyAt, runLogs, runFrame>>

\* the least length of a trimmed response that extractTextFromHtml keeps
\* (extractedText.trim().length === 0 is refused)
MinTextLength == 1

\* what ask_gemini gives extractTextFromHtml: an error (of the read or of the
\* call), nothing, white space only, or text; raw and trimmed are the length
\* of the response and of the response trimmed
ExtractResponses ==
    {[status |-> "throw", raw |-> 0, trimmed |-> 0],
     [status |-> "answer", raw |-> 0, trimmed |-> 0],
     [status |-> "answer", raw |-> 2, trimmed |-> 0],
     [status |-> "answer", raw |-> 52, trimmed |-> 50]}

\* (variant: every response is kept)
extractAnyResponse(answer) ==
    IF answer.status = "throw" THEN "null" ELSE "text"

\* what extractTextFromHtml returns: the text, written to parsed_text, or
\* null (the catch, or if (!extractedText || extractedText.trim().length === 0))
extractTextFromHtml(answer) ==
    IF answer.status = "throw" THEN "null"
    ELSE IF answer.raw = 0 \/ answer.trimmed < MinTextLength THEN "null"
    ELSE "text"

\* fs.writeFile(parsedTextFilePath, cleanedText) of the article a raw file holds
writeTxt(store, name, file) ==
    LET html == CHOOSE f \in store.raw[name] : f.file = file IN
    [store EXCEPT !.txt[name] = {f \in @ : f.file # file} \cup {TxtFile(file, html.of)}]

\* (variant: the article is kept whatever the extraction returned)
AnyExtraction(extractedText) == TRUE

\* if (extractedText !== null)
NotNull(extractedText) == extractedText # "null"

RunExtractReturn ==
    /\ mode = "full"
    /\ rpc = "extract"
    /\ GeneratorReturns
    /\ \E answer \in ExtractResponses :
          LET article == scrapedArticlePaths[ui]
              extractedText == extractTextFromHtml(answer)
              ok == extractedText = "text"
              data == IF NotNull(extractedText)
                      THEN Push(sourceArticlesData,
                                [url |-> article.url, text |-> answer.trimmed,
                                 rawHtmlPath |-> article.rawHtmlPath])
                      ELSE sourceArticlesData
          IN /\ fs' = IF ok THEN writeTxt(fs, sourceName, article.rawHtmlPath) ELSE fs
             /\ sourceArticlesData' = data
             /\ extractLog' = Append(extractLog, [unit |-> ui, ok |-> ok,
                                                  status |-> answer.status,
                                                  trimmed |-> answer.trimmed])
             /\ IF NextUnit(ui, ok) <= Len(scrapedArticlePaths)
                THEN ui' = NextUnit(ui, ok) /\ UNCHANGED <<rpc, si, emptyAt>>
                ELSE IF data = <<>>
                THEN ui' = 1 /\ NextSource("extract")
                ELSE ui' = 1 /\ rpc' = "aggregate" /\ UNCHANGED <<si, emptyAt>>
    /\ UNCHANGED <<articleUrls, scrapedArticlePaths, digestSuccess, fileNames,
                   allProcessedSourcesData, stages, captureLog, handed, combinedUnits,
                   runFrame>>

\* the articles as the packer measures them
AsArticles(data) == [i \in 1..Len(data) |-> [url |-> data[i].url.len, text |-> data[i].text]]

\* Step 3.5: aggregateArticleDataForSource(sourceArticlesData)
RunAggregateSource ==
    /\ mode = "full"
    /\ rpc = "aggregate"
    /\ ~awaiting
    /\ Stage("aggregate")
    /\ handed' = [stage |-> "source", dir |-> sourceName, units |-> sourceArticlesData]
    /\ IF aggregateArticleDataForSource(AsArticles(sourceArticlesData)).result = "content"
       THEN rpc' = "sourceDigest" /\ UNCHANGED <<si, emptyAt>>
       ELSE NextSource("aggregate")
    /\ UNCHANGED <<sourceLocals, fileNames, allProcessedSourcesData, fs, awaiting,
                   rendererCalls, generatorCalls, captureLog, extractLog, combinedUnits,
                   runFrame>>

SourcePc(kind) == IF kind = "digest" THEN "sourceDigest" ELSE "sourceEssay"

\* generateSourceNewsletterDigest / generateSourceAnalysisEssay: the ask_gemini call
RunSourceCall(kind) ==
    /\ mode = "full"
    /\ rpc = SourcePc(kind)
    /\ GeneratorCall
    /\ Stage(kind)
    /\ UNCHANGED <<rpc, si, sourceLocals, fileNames, allProcessedSourcesData, fs,
                   emptyAt, runLogs, runFrame>>

\* if (digestSuccess || essaySuccess) sourceAnalysisAttempted = true
sourceAnalysisAttempted(digestOk, essayOk) == digestOk \/ essayOk

\* its outcome: the document is written under the full-run name, or not at all
RunSourceReturn(kind) ==
    /\ mode = "full"
    /\ rpc = SourcePc(kind)
    /\ GeneratorReturns
    /\ \E outcome \in GenOutcomes :
          LET doc == NamedDoc(kind, DefaultTail, 0, WrittenSize(outcome), si) IN
          /\ fs' = IF IsWritten(outcome)
                   THEN [fs EXCEPT !.docs[sourceName] = writeFile(@, doc)]
                   ELSE fs
          /\ generated' = [scope |-> "source", kind |-> kind, outcome |-> outcome]
          /\ IF kind = "digest"
             THEN /\ digestSuccess' = IsWritten(outcome)
                  /\ rpc' = "sourceEssay"
                  /\ UNCHANGED <<si, emptyAt, allProcessedSourcesData>>
             ELSE /\ UNCHANGED digestSuccess
                  /\ IF sourceAnalysisAttempted(digestSuccess, IsWritten(outcome))
                     THEN /\ allProcessedSourcesData' =
                                 Push(allProcessedSourcesData,
                                      [sourceName |-> sourceName, entry |-> si,
                                       wrote |-> {k \in {"digest", "essay"} :
                                                     \/ k = "digest" /\ digestSuccess
                                                     \/ k = "essay" /\ IsWritten(outcome)}])
                          /\ NextSource("none")
                     ELSE /\ UNCHANGED allProcessedSourcesData
                          /\ NextSource("synthesis")
    /\ UNCHANGED <<articleUrls, ui, scrapedArticlePaths, sourceArticlesData, fileNames,
                   stages, runLogs, runRest, reported>>

\* the loop over the registry is over; Step 4 runs if a source was recorded
RunSourcesDone ==
    /\ mode = "full"
    /\ rpc = "source"
    /\ si > Len(registry)
    /\ rpc' = IF allProcessedSourcesData = <<>> THEN "done" ELSE "aggregateDigest"
    /\ UNCHANGED <<si, sourceLocals, fileNames, allProcessedSourcesData, fs, awaiting,
                   rendererCalls, generatorCalls, emptyAt, stages, runLogs, runFrame>>

AggregatePc(kind) == IF kind = "digest" THEN "aggregateDigest" ELSE "aggregateEssay"
CombinedPc(kind) == IF kind = "digest" THEN "combinedDigest" ELSE "combinedEssay"
AfterCombined(kind) == IF kind = "digest" THEN "aggregateEssay" ELSE "done"
CombinedKind(kind) == IF kind = "digest" THEN "daily_digest" ELSE "analysis_essay"

\* the documents a call of aggregateAnalysisFiles read, with the source of each
ReadUnits(sources, kind) ==
    LET read == SelectSeq([i \in 1..Len(sources) |-> i],
                          LAMBDA i : FileContentTruthy(sources[i], kind))
    IN [k \in 1..Len(read) |-> [entry |-> read[k], file |-> fileNameFound(sources[read[k]], kind)]]

\* every way the listings of the recorded sources' directories can come out
Listings(recorded, store) ==
    LET all == UNION {Orderings(store.docs[n]) : n \in SourceNames} IN
    {view \in [1..Len(recorded) -> all] :
        \A i \in 1..Len(recorded) :
            view[i] \in Orderings(store.docs[recorded[i].sourceName])}

\* Step 4: aggregateAnalysisFiles(allProcessedSourcesData, kind)
RunAggregateCombined(kind) ==
    /\ mode = "full"
    /\ rpc = AggregatePc(kind)
    /\ ~awaiting
    /\ \E view \in Listings(allProcessedSourcesData, fs) :
          LET sources == [i \in 1..Len(view) |-> AsSourceData(view[i])] IN
          /\ combinedUnits' = [combinedUnits EXCEPT ![kind] = ReadUnits(sources, kind)]
          /\ rpc' = IF aggregateAnalysisFiles(sources, kind).result = "content"
                    THEN CombinedPc(kind) ELSE AfterCombined(kind)
    /\ UNCHANGED <<si, sourceLocals, fileNames, allProcessedSourcesData, fs, awaiting,
                   rendererCalls, generatorCalls, emptyAt, stages, captureLog, extractLog,
                   handed, runFrame>>

\* generateCombinedNewsletterDigest / generateCombinedAnalysisEssay: the call
RunCombinedCall(kind) ==
    /\ mode = "full"
    /\ rpc = CombinedPc(kind)
    /\ GeneratorCall
    /\ UNCHANGED <<rpc, si, sourceLocals, fileNames, allProcessedSourcesData, fs,
                   emptyAt, stages, runLogs, runFrame>>

RunCombinedReturn(kind) ==
    /\ mode = "full"
    /\ rpc = CombinedPc(kind)
    /\ GeneratorReturns
    /\ \E outcome \in GenOutcomes :
          LET doc == NamedDoc(CombinedKind(kind), DefaultTail, 0, WrittenSize(outcome), 1) IN
          /\ fs' = IF IsWritten(outcome)
                   THEN [fs EXCEPT !.combined = writeFile(@, doc)]
                   ELSE fs
          /\ generated' = [scope |-> "combined", kind |-> kind, outcome |-> outcome]
    /\ rpc' = AfterCombined(kind)
    /\ UNCHANGED <<si, sourceLocals, fileNames, allProcessedSourcesData, emptyAt, stages,
                   runLogs, runRest, reported>>

(* Rerun of one task on the artifacts of an earlier run *)

\* fs.stat(potentialPath) finds a directory
TargetExists(dir, store) ==
    CASE dir.level = "outside" -> TRUE
      [] dir.level \in {"source", "sub"} -> store.made[dir.name]
      [] OTHER -> \E n \in SourceNames : store.made[n]

IsSourceTask(rerunTask) ==
    rerunTask \in {"extract-only", "source-digest", "source-essay"}

\* potentialPath.startsWith(resolvedBaseDir)
StartsWithBase(dir) == dir.level # "outside"

\* the length of a name: of the output base directory, of a date folder
\* (YYYY-MM-DD), of a source directory
NameLength(name) ==
    CASE name = "daily_news_data" -> 15
      [] name = "daily_news" -> 10
      [] name = "YYYY-MM-DD" -> 10
      [] name = "raw_html" -> 8
      [] name \in SourceNames -> 7

\* path.basename(potentialPath) and path.basename(path.dirname(potentialPath))
\* for a path under the base
Basename(dir, c) ==
    CASE dir.level = "base" -> c.outputBaseDir
      [] dir.level = "date" -> "YYYY-MM-DD"
      [] dir.level = "source" -> dir.name
      [] dir.level = "sub" -> "raw_html"

ParentBasename(dir, c) ==
    CASE dir.level = "date" -> c.outputBaseDir
      [] dir.level = "source" -> "YYYY-MM-DD"
      [] dir.level = "sub" -> dir.name

\* (variant: a source task is let through for every directory under the base)
validateUnderBase(rerunTask, dir, c) ==
    IF StartsWithBase(dir) THEN "accepted" ELSE "Error"

\* the check of the path's shape: "accepted", the check's own Error, or the
\* ReferenceError of dayjs, which main.js uses and never imports (the third
\* operand of ||, reached when the first two are false)
validateShape(rerunTask, dir, c) ==
    IF IsSourceTask(rerunTask)
    THEN IF \/ ~StartsWithBase(dir)
            \/ dir.level = "base"
            \/ NameLength(ParentBasename(dir, c)) # 10
         THEN "Error"
         ELSE "accepted"
    ELSE IF ~StartsWithBase(dir) \/ NameLength(Basename(dir, c)) # 10
         THEN "Error"
         ELSE "ReferenceError"

ShapeAccepted(rerunTask, dir) == validateShape(rerunTask, dir, settings) = "accepted"

InRerunStart == rpc = "start" /\ configOk /\ mode # "full"

\* the catch of the validation: the error is reported, the task is not run
RunRerunRejected ==
    /\ InRerunStart
    /\ ~(TargetExists(target, fs) /\ ShapeAccepted(mode, target))
    /\ rpc' = "done"
    /\ reported' = [error |-> IF TargetExists(target, fs)
                              THEN validateShape(mode, target, settings) ELSE "ENOENT",
                    names |-> <<target>>]
    /\ UNCHANGED <<si, sourceLocals, fileNames, allProcessedSourcesData, fs, awaiting,
                   rendererCalls, generatorCalls, emptyAt, stages, runLogs, runRest, generated>>

\* await rerunSpecificAnalysis(potentialPath, argv.rerunTask, argv.model || null)
RunRerunDispatch ==
    /\ InRerunStart
    /\ TargetExists(target, fs)
    /\ ShapeAccepted(mode, target)
    /\ rpc' = "rerun"
    /\ UNCHANGED <<si, sourceLocals, fileNames, allProcessedSourcesData, fs, awaiting,
                   rendererCalls, generatorCalls, emptyAt, stages, runLogs, runFrame>>

\* the subdirectory a source task reads
Needed(rerunTask) == IF rerunTask = "extract-only" THEN "raw_html" ELSE "parsed_text"

\* (variant: the subdirectory is taken to be there with the source directory)
SubdirectoryAssumed(dir, sub, store) == dir.level = "source" /\ store.made[dir.name]

\* fs.access(rawHtmlDir) / fs.access(parsedTextDir) resolves
HasSubdirectory(dir, sub, store) ==
    /\ dir.level = "source"
    /\ IF sub = "raw_html" THEN store.made[dir.name] ELSE store.parsedTextDir[dir.name]

\* fs.access rejects with ENOENT: the catch of rerunSpecificAnalysis reports
\* the error, whose message holds the path, and the function returns
RerunMissingDirectory ==
    /\ IsSourceTask(mode)
    /\ rpc = "rerun"
    /\ ~HasSubdirectory(target, Needed(mode), fs)
    /\ rpc' = "done"
    /\ reported' = [error |-> "ENOENT", names |-> <<target, Needed(mode)>>]
    /\ UNCHANGED <<si, sourceLocals, fileNames, allProcessedSourcesData, fs, awaiting,
                   rendererCalls, generatorCalls, emptyAt, stages, runLogs, runRest, generated>>

FileNamesOf(files) == {f.file : f \in files}

\* extract-only: fs.readdir(rawHtmlDir), in whatever order it lists the files
RerunExtractOnlyStart ==
    /\ mode = "extract-only"
    /\ rpc = "rerun"
    /\ HasSubdirectory(target, "raw_html", fs)
    /\ fs' = [fs EXCEPT !.parsedTextDir[target.name] = TRUE]
    /\ \E listed \in Orderings(FileNamesOf(fs.raw[target.name])) :
          /\ fileNames' = listed
          /\ rpc' = IF listed = <<>> THEN "done" ELSE "rerunExtract"
    /\ UNCHANGED <<si, sourceLocals, allProcessedSourcesData, awaiting,
                   rendererCalls, generatorCalls, emptyAt, stages, runLogs, runFrame>>

RerunExtractCall ==
    /\ mode = "extract-only"
    /\ rpc = "rerunExtract"
    /\ GeneratorCall
    /\ UNCHANGED <<rpc, si, sourceLocals, fileNames, allProcessedSourcesData, fs,
                   emptyAt, stages, runLogs, runFrame>>

RerunExtractReturn ==
    /\ mode = "extract-only"
    /\ rpc = "rerunExtract"
    /\ GeneratorReturns
    /\ \E answer \in ExtractResponses :
          LET ok == extractTextFromHtml(answer) = "text" IN
          /\ fs' = IF ok THEN writeTxt(fs, target.name, fileNames[ui]) ELSE fs
          /\ extractLog' = Append(extractLog, [unit |-> ui, ok |-> ok,
                                               status |-> answer.status,
                                               trimmed |-> answer.trimmed])
          /\ IF NextUnit(ui, ok) <= Len(fileNames)
             THEN ui' = NextUnit(ui, ok) /\ UNCHANGED rpc
             ELSE ui' = 1 /\ rpc' = "done"
    /\ UNCHANGED <<si, articleUrls, scrapedArticlePaths, sourceArticlesData, digestSuccess,
                   fileNames, allProcessedSourcesData, emptyAt, stages, captureLog, handed,
                   combinedUnits, runFrame>>

\* url: `(source_file: ${txtFileName})`
SourceFileUrl(file) == [path |-> file, len |-> 15 + Len(file) + 4]

\* articlesData, one entry per listed file, in the order of the listing
articlesDataOf(listed, files) ==
    [i \in 1..Len(listed) |->
        [url |-> SourceFileUrl(listed[i]),
         text |-> (CHOOSE f \in files : f.file = listed[i]).size,
         rawHtmlPath |-> <<>>]]

\* source-digest / source-essay: fs.readdir(parsedTextDir), the files read
\* into articlesData, aggregateArticleDataForSource(articlesData)
RerunSourceStart ==
    /\ mode \in {"source-digest", "source-essay"}
    /\ rpc = "rerun"
    /\ HasSubdirectory(target, "parsed_text", fs)
    /\ \E listed \in Orderings(FileNamesOf(fs.txt[target.name])) :
          LET articlesData == articlesDataOf(listed, fs.txt[target.name]) IN
          /\ fileNames' = listed
          /\ IF listed = <<>>
             THEN rpc' = "done" /\ UNCHANGED <<sourceArticlesData, handed>>
             ELSE /\ sourceArticlesData' = articlesData
                  /\ handed' = [stage |-> "source", dir |-> target.name,
                                 units |-> articlesData]
                  /\ rpc' = IF aggregateArticleDataForSource(AsArticles(articlesData)).result
                                    = "content"
                            THEN "rerunGenerate" ELSE "done"
    /\ UNCHANGED <<si, articleUrls, ui, scrapedArticlePaths, digestSuccess,
                   allProcessedSourcesData, fs, awaiting, rendererCalls, generatorCalls,
                   emptyAt, stages, captureLog, extractLog, combinedUnits, runFrame>>

RerunKind == IF mode = "source-digest" THEN "digest" ELSE "essay"

RerunGenerateCall ==
    /\ mode \in {"source-digest", "source-essay"}
    /\ rpc = "rerunGenerate"
    /\ GeneratorCall
    /\ UNCHANGED <<rpc, si, sourceLocals, fileNames, allProcessedSourcesData, fs,
                   emptyAt, stages, runLogs, runFrame>>

\* (variant: the document is written under the name of the full run)
RerunGenerateReturnPlainName ==
    /\ mode \in {"source-digest", "source-essay"}
    /\ rpc = "rerunGenerate"
    /\ GeneratorReturns
    /\ \E outcome \in GenOutcomes :
          LET doc == NamedDoc(RerunKind, DefaultTail, 0, WrittenSize(outcome), 1) IN
          /\ fs' = IF IsWritten(outcome)
                   THEN [fs EXCEPT !.docs[target.name] = writeFile(@, doc)]
                   ELSE fs
          /\ generated' = [scope |-> "source", kind |-> RerunKind, outcome |-> outcome]
    /\ rpc' = "done"
    /\ UNCHANGED <<si, sourceLocals, fileNames, allProcessedSourcesData, emptyAt, stages,
                   runLogs, runRest, reported>>

\* the document is written under a name stamped with Date.now()
RerunGenerateReturn ==
    /\ mode \in {"source-digest", "source-essay"}
    /\ rpc = "rerunGenerate"
    /\ GeneratorReturns
    /\ \E outcome \in GenOutcomes :
          LET doc == NamedDoc(RerunKind, DefaultTail, Now(fs), WrittenSize(outcome), 1) IN
          /\ fs' = IF IsWritten(outcome)
                   THEN [fs EXCEPT !.docs[target.name] = writeFile(@, doc)]
                   ELSE fs
          /\ generated' = [scope |-> "source", kind |-> RerunKind, outcome |-> outcome]
    /\ rpc' = "done"
    /\ UNCHANGED <<si, sourceLocals, fileNames, allProcessedSourcesData, emptyAt, stages,
                   runLogs, runRest, reported>>

RunNext ==
    \/ RunConfigInvalid
    \/ RunStartFull
    \/ RunSkipInvalidUrl
    \/ RunSetupDirectories
    \/ RunSetupDirectoriesThrows
    \/ RunScrapeSourceCall
    \/ RunScrapeSourceReturn
    \/ RunDiscoverCall
    \/ RunDiscoverReturn
    \/ RunCaptureCall
    \/ RunCaptureReturn
    \/ RunExtractCall
    \/ RunExtractReturn
    \/ RunAggregateSource
    \/ \E kind \in {"digest", "essay"} : RunSourceCall(kind)
    \/ \E kind \in {"digest", "essay"} : RunSourceReturn(kind)
    \/ RunSourcesDone
    \/ \E kind \in {"digest", "essay"} : RunAggregateCombined(kind)
    \/ \E kind \in {"digest", "essay"} : RunCombinedCall(kind)
    \/ \E kind \in {"digest", "essay"} : RunCombinedReturn(kind)
    \/ RunRerunRejected
    \/ RunRerunDispatch
    \/ RerunMissingDirectory
    \/ RerunExtractOnlyStart
    \/ RerunExtractCall
    \/ RerunExtractReturn
    \/ RerunSourceStart
    \/ RerunGenerateCall
    \/ RerunGenerateReturn

SpecRun == RunInit /\ [][RunNext]_vars


----------------------------------------------------------------------------
(* extractArticleUrls(sourceHtml, sourceUrl): from the text the Generator    *)
(* answered to the list of URLs returned, in main.js and in                  *)
(* cerebras-module.js.  A line of the response is whitespace, a list marker  *)
(* and a text; a text that is a URL has a scheme as written, a host, a path  *)
(* and possibly a query.                                                     *)

Url(scheme, host, pathname, article, query) ==
    [kind |-> "url", scheme |-> scheme, host |-> host, pathname |-> pathname,
     article |-> article, query |-> query]

\* https://www.nytimes.com/2025/01/01/x.html, the same with ?ref=1, the same
\* written HTTPS://..., https://a.com/y and ftp://a.com/y
NytArticle == Url("https", "www.nytimes.com", "/2025/01/01/x.html", TRUE, FALSE)
NytArticleQuery == Url("https", "www.nytimes.com", "/2025/01/01/x.html", TRUE, TRUE)
NytArticleUpper == Url("HTTPS", "www.nytimes.com", "/2025/01/01/x.html", TRUE, FALSE)
NytSecond == Url("https", "www.nytimes.com", "/2025/01/01/z.html", TRUE, FALSE)
OtherPage == Url("https", "a.com", "/y", FALSE, FALSE)
FtpPage == Url("ftp", "a.com", "/y", FALSE, FALSE)
\* /2025/01/01/x.html, "Here are the URLs:" and "http://" (no host)
RelativeLink == [kind |-> "relative", scheme |-> "none", host |-> "none",
                 pathname |-> "/2025/01/01/x.html", article |-> TRUE, query |-> FALSE]
Prose == [kind |-> "prose", scheme |-> "none", host |-> "none",
          pathname |-> "none", article |-> FALSE, query |-> FALSE]
HttpNoHost == [kind |-> "nohost", scheme |-> "http", host |-> "none",
               pathname |-> "none", article |-> FALSE, query |-> FALSE]

Line(indent, mark, text) == [indent |-> indent, marker |-> mark, text |-> text]

ResponseLines ==
    {Line(FALSE, "none", t) : t \in {NytArticle, NytArticleQuery, NytArticleUpper, NytSecond,
                                     OtherPage, FtpPage, RelativeLink, Prose, HttpNoHost}}
        \cup {Line(TRUE, "-", NytArticle), Line(FALSE, "*", OtherPage),
              Line(FALSE, "1.", OtherPage)}

\* what ask_gemini / ask_cerebras gave: nothing, an error, or lines of text
NoResponse == [status |-> "none", lines |-> <<>>]
Responses ==
    {NoResponse, [status |-> "throw", lines |-> <<>>]}
        \cup {[status |-> "text", lines |-> ls] :
                  ls \in UNION {[1..n -> ResponseLines] : n \in 1..MaxLines}}

\* line.trim().replace(/^[-*]\s*/, '')
Cleaned(line) ==
    [indent |-> FALSE,
     marker |-> IF line.marker \in {"-", "*"} THEN "none" ELSE line.marker,
     text |-> line.text]

\* line.startsWith('http')
StartsWithHttp(line) ==
    ~line.indent /\ line.marker = "none" /\ line.text.scheme \in {"http", "https"}

\* new URL(line) does not throw
IsParsable(line) == line.marker = "none" /\ line.text.kind = "url"

\* `${urlObj.origin}${urlObj.pathname}`: the scheme in lower case, no query
OriginAndPathname(line) ==
    Line(FALSE, "none",
         [line.text EXCEPT !.scheme = IF @ = "HTTPS" THEN "https" ELSE @, !.query = FALSE])

\* the filter of cerebras-module.js: an article of www.nytimes.com
IsNytArticle(line) ==
    /\ line.text.scheme = "https"
    /\ line.text.host = "www.nytimes.com"
    /\ line.text.article

\* (variant: the list is returned as filtered)
NotDeduplicated(urls) == urls

\* [...new Set(urls)]: the first occurrence of each string, in order
Unique(urls) ==
    LET first == SelectSeq([i \in 1..Len(urls) |-> i],
                           LAMBDA i : \A j \in 1..(i - 1) : urls[j] # urls[i])
    IN [k \in 1..Len(first) |-> urls[first[k]]]

extractArticleUrls(answer) ==
    IF answer.status # "text" THEN <<>>
    ELSE LET lines == [i \in 1..Len(answer.lines) |-> Cleaned(answer.lines[i])]
             urls == SelectSeq(lines, LAMBDA l : StartsWithHttp(l) /\ IsParsable(l))
         IN Unique(urls)

extractArticleUrlsCerebras(answer) ==
    IF answer.status # "text" THEN <<>>
    ELSE LET lines == [i \in 1..Len(answer.lines) |-> Cleaned(answer.lines[i])]
             parsed == SelectSeq(lines, IsParsable)
             mapped == [i \in 1..Len(parsed) |-> OriginAndPathname(parsed[i])]
             urls == SelectSeq(mapped, IsNytArticle)
         IN Unique(urls)

DiscoverInit ==
    /\ module \in {"main", "cerebras"}
    /\ response \in Responses
    /\ uniqueUrls = <<>>
    /\ dpc = "call"
    /\ PackIdle
    /\ GateIdle
    /\ StoreIdle
    /\ RunIdle

DiscoverMain ==
    /\ dpc = "call"
    /\ module = "main"
    /\ uniqueUrls' = extractArticleUrls(response)
    /\ dpc' = "done"
    /\ UNCHANGED <<module, response, outsideDiscover>>

DiscoverCerebras ==
    /\ dpc = "call"
    /\ module = "cerebras"
    /\ uniqueUrls' = extractArticleUrlsCerebras(response)
    /\ dpc' = "done"
    /\ UNCHANGED <<module, response, outsideDiscover>>

DiscoverNext == DiscoverMain \/ DiscoverCerebras

SpecDiscover == DiscoverInit /\ [][DiscoverNext]_vars

----------------------------------------------------------------------------
(* Properties of the packers (checked under SpecPack) *)

\* the units of the input: every article; every source whose document was read
UnitIndexes ==
    IF task = "articles"
    THEN [i \in 1..Len(articlesToProcess) |-> i]
    ELSE SelectSeq([i \in 1..Len(processedSourcesData) |-> i],
                   LAMBDA i : FileContentTruthy(processedSourcesData[i], task))

FullEntry(i) ==
    IF task = "articles"
    THEN articleEntry(i, articlesToProcess[i])
    ELSE sourceEntry(i, processedSourcesData[i], task)

RECURSIVE PrefixLength(_)
\* length of the preamble followed by the full entries of the first k units
PrefixLength(k) ==
    IF k = 0 THEN Preamble.len
    ELSE PrefixLength(k - 1) + FullEntry(UnitIndexes[k]).len

PackDone == ppc = "done"

HasSegment(kind, unit) ==
    \E n \in 1..Len(combinedContent) :
        combinedContent[n].kind = kind /\ combinedContent[n].unit = unit

\* C1: for every budget and every input, a payload the packer returns is no
\* longer than the budget (preamble, marker entries and forced entry included).
C1_PayloadWithinBudget ==
    presult = "content" => SumLen(combinedContent) <= budget

EveryFullEntryExceeds ==
    \A p \in 1..Len(UnitIndexes) : FullEntry(UnitIndexes[p]).len > budget

\* C2 (as stated): when units exist and every full entry alone exceeds the
\* budget, the packer still returns a payload, holding a forced entry of the
\* first unit.
C2_AlwaysReturnsContent ==
    (PackDone /\ Len(UnitIndexes) > 0 /\ EveryFullEntryExceeds)
        => (presult = "content" /\ HasSegment("forced", 1))

\* C2 (amended): when units exist and every full entry alone exceeds the
\* budget, the article packer returns a payload made of the preamble, marker
\* entries and one forced entry holding the first min(1000, length) characters
\* of the first article, exactly when that forced entry alone is within the
\* budget; in every other case, and always in aggregateAnalysisFiles, the
\* packer returns null.
C2_ForcedEntryWhenItFits ==
    (PackDone /\ Len(UnitIndexes) > 0 /\ EveryFullEntryExceeds)
        => IF task = "articles"
              /\ FirstEntryOverhead + articlesToProcess[1].url
                   + Min(articlesToProcess[1].text, FirstEntryPrefix) <= budget
           THEN /\ presult = "content"
                /\ includedCount = 1
                /\ combinedContent[Len(combinedContent)].kind = "forced"
                /\ combinedContent[Len(combinedContent)].unit = 1
                /\ ~\E i \in 1..Len(articlesToProcess) : HasSegment("full", i)
           ELSE /\ presult = "null"
                /\ ~HasSegment("forced", 1)

C2_Witness ==
    /\ PackDone /\ task = "articles"
    /\ Len(articlesToProcess) > 1 /\ EveryFullEntryExceeds
    /\ presult = "content"
    /\ HasSegment("forced", 1)

\* the k for which units 1..k fit together and unit k+1 does not
FitsUpTo(k) ==
    /\ k < Len(UnitIndexes)
    /\ PrefixLength(k) <= budget
    /\ PrefixLength(k + 1) > budget

\* C3 (as stated): if units 1..k fit together and unit k+1 does not, the
\* packer's includedCount is k, whatever follows unit k+1.
C3_IncludedCountIsPrefix ==
    PackDone => \A k \in 0..Len(UnitIndexes) : FitsUpTo(k) => includedCount = k

ForcedEntryWithinBudget ==
    /\ task = "articles"
    /\ Len(articlesToProcess) > 0
    /\ FirstEntryOverhead + articlesToProcess[1].url
         + Min(articlesToProcess[1].text, FirstEntryPrefix) <= budget

\* C3 (amended): if units 1..k fit together and unit k+1 does not, units 1..k
\* are fully included, in order, right after the preamble, unit k+1 is not
\* fully included, and includedCount >= k.  The pass goes on after unit k+1,
\* so later units that fit in the space left are included as well;
\* includedCount is k when every later unit is at least as long as unit k+1,
\* except that for k = 0 the article packer's forced first entry makes it 1
\* when that entry alone is within the budget.
C3_GreedyOrderPreserving ==
    PackDone => \A k \in 0..Len(UnitIndexes) : FitsUpTo(k) =>
        /\ \A p \in 1..k : combinedContent[p + 1] = FullEntry(UnitIndexes[p])
        /\ ~HasSegment("full", UnitIndexes[k + 1])
        /\ includedCount >= k
        /\ (\A q \in (k + 2)..Len(UnitIndexes) :
                FullEntry(UnitIndexes[q]).len >= FullEntry(UnitIndexes[k + 1]).len)
            => includedCount = (IF k = 0 /\ ForcedEntryWithinBudget THEN 1 ELSE k)

C3_Witness ==
    /\ PackDone
    /\ \E k \in 1..Len(UnitIndexes) :
          /\ FitsUpTo(k)
          /\ k + 1 < Len(UnitIndexes)
          /\ includedCount > k

----------------------------------------------------------------------------
(* Properties of the gate *)

GateFinished(c) == gpc[c] \in {"returned", "thrown"}

GateRan(c) == GateFinished(c) /\ thrownError[c] # "nokey"

\* C5: for N consecutive rate-limited failures the gate retries exactly
\* min(maxRetries, N) times, and when the operation fails again after
\* maxRetries retries the gate throws that error.
C5_RetriesMinOfBoundAndFailures ==
    \A c \in DOMAIN gpc :
        GateRan(c) =>
            /\ retries[c] = Min(maxRetries(c), rateLimited[c])
            /\ attempts[c] = 1 + Min(maxRetries(c), rateLimited[c])
            /\ rateLimited[c] > maxRetries(c)
                 => (gpc[c] = "thrown" /\ thrownError[c] = "429")

C5_Witness ==
    /\ options[1].maxRetries = Given(2)
    /\ gpc[1] = "thrown"
    /\ thrownError[1] = "429"
    /\ rateLimited[1] = 3
    /\ attempts[1] = 3

\* C6: the wait before the k-th retry is initialBackoff * k, so after k
\* rate-limited failures the gate has waited initialBackoff * k(k+1)/2 in all;
\* with maxRetries = 5, initialBackoff = 1000 and two failures that is 3000 ms.
C6_LinearBackoff ==
    \A c \in DOMAIN gpc :
        /\ lastWait[c] = initialBackoff(c) * retries[c]
        /\ 2 * totalWait[c] = initialBackoff(c) * retries[c] * (retries[c] + 1)
        /\ (/\ options[c].maxRetries = Given(5)
            /\ options[c].initialBackoff = Given(1000)
            /\ gpc[c] = "returned"
            /\ rateLimited[c] = 2) => totalWait[c] = 3000

C6_Witness ==
    /\ options[1].maxRetries = Given(5)
    /\ options[1].initialBackoff = Given(1000)
    /\ gpc[1] = "returned"
    /\ rateLimited[1] = 2
    /\ lastWait[1] = 2000
    /\ totalWait[1] = 3000

\* C7: a failure that is not a rate limit is thrown to the caller at once, with
\* no retry and no wait after it (a first-attempt failure: one invocation, no
\* wait at all), and the gate never returns after a failed last attempt.
C7_OtherFailurePropagates ==
    \A c \in DOMAIN gpc :
        /\ lastOutcome[c] = "other" =>
              /\ gpc[c] = "thrown"
              /\ thrownError[c] = "other"
              /\ attempts[c] = rateLimited[c] + 1
              /\ retries[c] = rateLimited[c]
              /\ rateLimited[c] = 0 => (attempts[c] = 1 /\ totalWait[c] = 0)
        /\ gpc[c] = "returned" => (lastOutcome[c] = "ok" /\ thrownError[c] = "none")
        /\ (GateFinished(c) /\ lastOutcome[c] \in {"429", "other"})
              => (gpc[c] = "thrown" /\ thrownError[c] = lastOutcome[c])

C7_Witness ==
    /\ lastOutcome[1] = "other"
    /\ gpc[1] = "thrown"
    /\ attempts[1] = 1
    /\ totalWait[1] = 0

\* C8: every invocation ends, after at most maxRetries + 1 requests, whatever
\* the requests answer, and a rate-limit error is thrown only once maxRetries
\* retries were made.
C8_Terminates ==
    /\ [](\A c \in DOMAIN gpc : attempts[c] <= maxRetries(c) + 1)
    /\ [](\A c \in DOMAIN gpc : thrownError[c] = "429" =>
              (retries[c] = maxRetries(c) /\ attempts[c] = maxRetries(c) + 1))
    /\ <>GateFinished(1)

C8_Witness ==
    /\ ~options[1].maxRetries.given
    /\ thrownError[1] = "429"
    /\ attempts[1] = DefaultMaxRetries + 1

\* C9: every value the caller passes for maxRetries or initialBackoff, 0
\* included, is the retry bound, respectively the backoff base, the gate uses.
C9_GivenValuesAreUsed ==
    \A c \in DOMAIN gpc :
        /\ options[c].maxRetries.given => retries[c] <= options[c].maxRetries.val
        /\ options[c].initialBackoff.given =>
              lastWait[c] = options[c].initialBackoff.val * retries[c]

CallState(c) ==
    <<gpc[c], retries[c], attempts[c], rateLimited[c], lastWait[c], totalWait[c],
      lastOutcome[c], thrownError[c]>>

\* C10: with two invocations in progress at once, each one's retry counter,
\* waits and outcome follow from its own failures alone, and a step of one
\* leaves the other's state as it was.
C10_IndependentCalls ==
    /\ [](\A c \in DOMAIN gpc :
            /\ retries[c] = Min(maxRetries(c), rateLimited[c])
            /\ lastWait[c] = initialBackoff(c) * retries[c]
            /\ 2 * totalWait[c] = initialBackoff(c) * retries[c] * (retries[c] + 1)
            /\ gpc[c] = "returned" => lastOutcome[c] = "ok")
    /\ [][\A c \in DOMAIN gpc : \A d \in DOMAIN gpc \ {c} :
            CallState(c)' # CallState(c) => CallState(d)' = CallState(d)]_vars

C10_Witness ==
    /\ DOMAIN gpc = {1, 2}
    /\ gpc[1] = "waiting" /\ gpc[2] = "waiting"
    /\ retries[1] = 2 /\ retries[2] = 1
    /\ lastWait[1] = 2000 /\ lastWait[2] = 500


----------------------------------------------------------------------------
(* Properties of the artifact store (checked under SpecStore) *)

Matching(kind) == {f \in storeDir : f.kind = kind}

\* file is the one of that kind with the largest timestamp in its name, or
\* NoFile when the directory holds none of that kind
IsLatestOf(file, kind) ==
    IF Matching(kind) = {} THEN file = NoFile
    ELSE /\ file \in Matching(kind)
         /\ \A f \in Matching(kind) : f.stamp <= file.stamp

\* C11: a write never overwrites.  After any sequence of full-run and rerun
\* writes every document ever written is still in the directory with the
\* content it was written with, and a rerun's document carries a timestamp no
\* earlier document carries.
C11_NeverOverwrites ==
    /\ \A f \in everWritten : f \in storeDir
    /\ (lastWritten # NoFile /\ lastWritten.stamp # 0) =>
           \A f \in everWritten \ {lastWritten} : f.stamp < lastWritten.stamp

\* C12: the lookup of aggregateAnalysisFiles reads, among the files of the
\* directory whose name matches the kind, the one with the largest embedded
\* timestamp (of 100, 200 and 300 the one stamped 300), with its current
\* content, and finds nothing exactly when no file matches.
C12_LatestIsMaxTimestamp ==
    looked.by = "aggregateAnalysisFiles" => IsLatestOf(selected, looked.kind)

C12_Witness ==
    /\ looked.by = "aggregateAnalysisFiles"
    /\ {f.stamp : f \in Matching(looked.kind)} = {100, 200, 300}
    /\ selected.stamp = 300

\* C13: for a fixed set of files the document the lookup selects does not
\* depend on the order in which the directory listing returns them, equal and
\* unparsable timestamps included.
C13_LatestIgnoresListingOrder ==
    looked.by = "aggregateAnalysisFiles" =>
        \A order \in Orderings(storeDir) : latest(order, looked.kind) = selected

\* C14: every consumer that needs the document of a kind reads the one with
\* the latest timestamp: the combined stage (aggregateAnalysisFiles) and the
\* viewer (findAndReadMarkdown) alike.
C14_ConsumersReadLatest ==
    /\ looked.by = "aggregateAnalysisFiles" => IsLatestOf(selected, looked.kind)
    /\ looked.by = "findAndReadMarkdown" => IsLatestOf(viewed, looked.kind)


----------------------------------------------------------------------------
(* Properties of the orchestrator (checked under SpecRun) *)

RECURSIVE IsSubsequence(_, _)
\* a is b with some elements left out, the others in the same order
IsSubsequence(a, b) ==
    IF a = <<>> THEN TRUE
    ELSE IF b = <<>> THEN FALSE
    ELSE IF Head(a) = Head(b) THEN IsSubsequence(Tail(a), Tail(b))
    ELSE IsSubsequence(a, Tail(b))

Increasing(numbers) ==
    \A j, k \in 1..Len(numbers) : j < k => numbers[j] < numbers[k]

Entries == 1..Len(registry)
EntriesOf(units) == [k \in 1..Len(units) |-> units[k].entry]

\* the units of a log that succeeded, by position
OkUnits(log) == SelectSeq([k \in 1..Len(log) |-> k], LAMBDA k : log[k].ok)
AllFailed(log) == log # <<>> /\ OkUnits(log) = <<>>

StageRank(stage) ==
    CASE stage = "render" -> 1
      [] stage = "discover" -> 2
      [] stage = "capture" -> 3
      [] stage = "extract" -> 4
      [] stage = "aggregate" -> 5
      [] stage = "digest" -> 6
      [] stage = "essay" -> 7

AllStages == {"render", "discover", "capture", "extract", "aggregate", "digest", "essay"}

\* the stages whose zero output ends the work on a source ("url": the entry
\* is not a URL and no stage runs at all)
EmptyStages == {"url", "render", "discover", "capture", "extract", "aggregate"}

Downstream(stage) ==
    IF stage = "url" THEN AllStages
    ELSE {later \in AllStages : StageRank(later) > StageRank(stage)}

\* the loop has just left entry si - 1 and its locals are still there
JustLeft == mode = "full" /\ rpc = "source" /\ si > 1 /\ registry[si - 1].valid

\* C15: when a stage produces nothing for a source (page not rendered, no URL
\* discovered, no article captured, none extracted, aggregation empty) no later
\* stage runs for that source and it is not recorded for the combined stage,
\* and the loop goes on with the entry that follows: at the normal end of the
\* run every valid registry entry has had its page requested.
C15_EmptySkipsDownstream ==
    /\ \A i \in Entries :
          emptyAt[i] \in EmptyStages =>
              /\ stages[i] \cap Downstream(emptyAt[i]) = {}
              /\ \A k \in 1..Len(allProcessedSourcesData) :
                     allProcessedSourcesData[k].entry # i
    /\ JustLeft =>
          /\ AllFailed(captureLog) <=> emptyAt[si - 1] = "capture"
          /\ AllFailed(extractLog) <=> emptyAt[si - 1] = "extract"
          /\ ("discover" \in stages[si - 1] /\ articleUrls = <<>>)
                 <=> emptyAt[si - 1] = "discover"
          /\ (handed.stage = "source" /\ "digest" \notin stages[si - 1])
                 <=> emptyAt[si - 1] = "aggregate"
    /\ (mode = "full" /\ rpc = "done") =>
          \A i \in Entries : registry[i].valid => "render" \in stages[i]

C15_EmptyGoesOnWithNext ==
    \A i \in Entries :
        (emptyAt[i] = "none" /\ emptyAt'[i] \in EmptyStages) =>
            /\ si = i
            /\ si' = i + 1
            /\ rpc' = "source"
            /\ allProcessedSourcesData' = allProcessedSourcesData

C15_EmptyIsLocal == []C15_EmptySkipsDownstream /\ [][C15_EmptyGoesOnWithNext]_vars

C15_Witness ==
    /\ mode = "full"
    /\ rpc = "done"
    /\ Len(registry) = 2
    /\ emptyAt[1] = "capture"
    /\ stages[1] = {"render", "discover", "capture"}
    /\ stages[2] = AllStages

\* C16: no failure of a Renderer call, a Generator call or an artifact
\* operation while a source is processed aborts the run: the loop reaches the
\* end of the registry and the run its normal end.
C16_FailureNeverAborts ==
    /\ rpc # "aborted"
    /\ (mode = "full" /\ rpc = "done") => si > Len(registry)

OnceEach(log) == \A k \in 1..Len(log) : log[k].unit = k

\* C17: within a stage every unit is attempted exactly once, in turn: a unit
\* that failed is not attempted again, and the stage goes on to every unit
\* that remains (one scrapeAndSave per discovered URL, one extractTextFromHtml
\* per captured article, one per raw file in an extract-only rerun).
C17_EachUnitOnce ==
    /\ OnceEach(captureLog)
    /\ OnceEach(extractLog)
    /\ Len(scrapedArticlePaths) = Len(OkUnits(captureLog))
    /\ mode = "full" =>
          /\ rpc = "capture" => Len(captureLog) = ui - 1
          /\ (captureLog # <<>> /\ rpc # "capture") => Len(captureLog) = Len(articleUrls)
          /\ rpc = "extract" => Len(extractLog) = ui - 1
          /\ (extractLog # <<>> /\ rpc # "extract") =>
                 Len(extractLog) = Len(scrapedArticlePaths)
    /\ mode = "extract-only" =>
          /\ rpc = "rerunExtract" => Len(extractLog) = ui - 1
          /\ (rpc = "done" /\ fileNames # <<>>) => Len(extractLog) = Len(fileNames)

C17_Witness ==
    /\ mode = "full"
    /\ rpc = "aggregate"
    /\ Len(captureLog) = 3
    /\ ~captureLog[1].ok
    /\ Len(extractLog) = 2
    /\ ~extractLog[1].ok
    /\ extractLog[2].ok

\* the URLs of the current source that were captured and then extracted
ExpectedUnits ==
    LET captured == OkUnits(captureLog)
        extracted == OkUnits(extractLog)
    IN [j \in 1..Len(extracted) |-> articleUrls[captured[extracted[j]]]]

UrlsOf(units) == [j \in 1..Len(units) |-> units[j].url]

SourceUnitsExact ==
    (mode = "full" /\ handed.stage = "source") => UrlsOf(handed.units) = ExpectedUnits

\* aggregateAnalysisFiles has run for that kind in this full run
AggregatedCombined(kind) ==
    /\ mode = "full"
    /\ allProcessedSourcesData # <<>>
    /\ rpc \in (IF kind = "digest"
                THEN {"combinedDigest", "aggregateEssay", "combinedEssay", "done"}
                ELSE {"combinedEssay", "done"})

DocsOf(p, kind) ==
    {f \in fs.docs[allProcessedSourcesData[p].sourceName] : f.kind = kind}

IsNewest(file, files) == file \in files /\ \A g \in files : g.ts <= file.ts

\* the directory of the p-th recorded source holds a document of that kind
\* and the newest one is not empty
HoldsDocument(p, kind) ==
    /\ DocsOf(p, kind) # {}
    /\ \A f \in DocsOf(p, kind) : IsNewest(f, DocsOf(p, kind)) => f.size > 0

\* the recorded sources that completed per-source synthesis, by position:
\* those that wrote a document of the kind in this run, those that wrote both
\* documents, or every recorded source
Completed(kind, reading) ==
    SelectSeq([p \in 1..Len(allProcessedSourcesData) |-> p],
              LAMBDA p : CASE reading = "kind" -> kind \in allProcessedSourcesData[p].wrote
                           [] reading = "both" -> allProcessedSourcesData[p].wrote = {"digest", "essay"}
                           [] reading = "recorded" -> TRUE)

\* C18 as stated: per-source synthesis gets exactly one unit per article that
\* was captured and extracted, and combined synthesis gets, for the digest and
\* for the essay, exactly one document for each source that completed
\* per-source synthesis (in one reading of "completed" at least).
C18_OneDocumentPerCompletedSource ==
    /\ SourceUnitsExact
    /\ \A kind \in {"digest", "essay"} :
          AggregatedCombined(kind) =>
              \E reading \in {"kind", "both", "recorded"} :
                  EntriesOf(combinedUnits[kind]) = Completed(kind, reading)

\* C18 amended: per-source synthesis gets exactly one unit per article that
\* was captured and extracted; combined synthesis of a kind gets at most one
\* document per recorded source, the newest of that kind in the source's
\* directory, and gets it exactly when that directory holds one that is not
\* empty.
C18_OneDocumentPerStoredDocument ==
    /\ SourceUnitsExact
    /\ \A kind \in {"digest", "essay"} :
          AggregatedCombined(kind) =>
              /\ Increasing(EntriesOf(combinedUnits[kind]))
              /\ \A p \in 1..Len(allProcessedSourcesData) :
                     (\E k \in 1..Len(combinedUnits[kind]) : combinedUnits[kind][k].entry = p)
                         <=> HoldsDocument(p, kind)
              /\ \A k \in 1..Len(combinedUnits[kind]) :
                     IsNewest(combinedUnits[kind][k].file,
                              DocsOf(combinedUnits[kind][k].entry, kind))

C18_Witness ==
    /\ mode = "full"
    /\ rpc = "done"
    /\ Len(articleUrls) = 3
    /\ Len(scrapedArticlePaths) = 2
    /\ Len(handed.units) = 1
    /\ Len(allProcessedSourcesData) = 2
    /\ Len(combinedUnits["digest"]) = 2
    /\ Len(combinedUnits["essay"]) = 2

\* the file a unit handed to the packer stands for
UnitFile(unit) == IF mode = "full" THEN urlToFilename(unit.url) ELSE unit.url.path
UnitFiles(units) == [j \in 1..Len(units) |-> UnitFile(units[j])]

ArticlesInDiscoveryOrder ==
    handed.stage = "source" => IsSubsequence(UnitFiles(handed.units), fs.order[handed.dir])

SourcesInRegistryOrder ==
    /\ Increasing(EntriesOf(allProcessedSourcesData))
    /\ \A kind \in {"digest", "essay"} : Increasing(EntriesOf(combinedUnits[kind]))

\* C19 as stated: in a full run and in a rerun alike, the articles of a source
\* are processed and handed to the packer in the order URL discovery returned
\* them, and the sources in the order of the registry.
C19_OrderPreserved ==
    /\ OnceEach(captureLog)
    /\ OnceEach(extractLog)
    /\ ArticlesInDiscoveryOrder
    /\ SourcesInRegistryOrder

\* what holds of the order: a full run keeps it; a rerun of source-digest or
\* source-essay hands the articles in the order fs.readdir lists the files of
\* parsed_text
FullRunOrderPreserved ==
    /\ OnceEach(captureLog)
    /\ OnceEach(extractLog)
    /\ mode = "full" => ArticlesInDiscoveryOrder
    /\ SourcesInRegistryOrder
    /\ (IsSourceTask(mode) /\ handed.stage = "source") =>
          UnitFiles(handed.units) = fileNames

\* C20: execution is strictly sequential.  At most one Generator call and at
\* most one Renderer call is in flight, in a full run and in a rerun, and the
\* work on a registry entry is over when the loop moves to the next: stages
\* run only for the current entry, the loop never goes back, and it moves on
\* with no call in flight.
C20_OneCallInFlight ==
    /\ rendererCalls <= 1
    /\ generatorCalls <= 1
    /\ rendererCalls + generatorCalls <= 1
    /\ (rendererCalls + generatorCalls = 1) <=> awaiting

C20_OneSourceAtATime ==
    /\ si' >= si
    /\ \A i \in Entries : stages'[i] # stages[i] => i = si
    /\ si' # si => (~awaiting' /\ rendererCalls' = 0 /\ generatorCalls' = 0)

C20_StrictlySequential == []C20_OneCallInFlight /\ [][C20_OneSourceAtATime]_vars

C20_Witness ==
    /\ mode = "full"
    /\ si = 2
    /\ generatorCalls = 1
    /\ rpc = "extract"
    /\ stages[1] = AllStages

\* a required key or path of the configuration is missing
MissingKeyOrPath ==
    \/ ~settings.apiKey
    \/ ~settings.bypassPaywallsExtensionPath
    \/ ~settings.ublockLiteExtensionPath
    \/ ~settings.sourceListFile

C21_NothingRan ==
    MissingKeyOrPath =>
        /\ rpc \in {"start", "exit"}
        /\ rendererCalls = 0
        /\ generatorCalls = 0
        /\ ~awaiting
        /\ \A i \in Entries : stages[i] = {}
        /\ handed = NoUnits
        /\ captureLog = <<>>
        /\ extractLog = <<>>

C21_NothingWritten ==
    MissingKeyOrPath => (fs' = fs /\ rpc' \in {rpc, "exit"})

\* C21: a configuration with a missing key or path is fatal before any stage
\* runs: in a full run and in a rerun alike the process exits with failure
\* and no Renderer call, no Generator call and no write to the artifacts has
\* happened.
C21_ConfigurationFailureIsFatal == []C21_NothingRan /\ [][C21_NothingWritten]_vars

C21_Witness ==
    /\ rpc = "exit"
    /\ mode = "source-digest"
    /\ target = SourceDir("a")
    /\ fs = AfterFullRun
    /\ settings = [CompleteSettings EXCEPT !.sourceListFile = FALSE]

\* rerunSpecificAnalysis has been called
Dispatched == mode # "full" /\ rpc \in {"rerun", "rerunExtract", "rerunGenerate"}

\* the shape the task is for
RightShape(rerunTask, dir) ==
    IF IsSourceTask(rerunTask) THEN dir.level = "source" ELSE dir.level = "date"

\* no stage of a rerun has run
NoRerunStage ==
    /\ generatorCalls = 0
    /\ rendererCalls = 0
    /\ extractLog = <<>>
    /\ handed = NoUnits
    /\ fileNames = <<>>

\* C22: a rerun task is dispatched only for a directory of the shape the task
\* is for, a source-level directory for extract-only, source-digest and
\* source-essay, a date-level directory for combined-digest and
\* combined-essay; for a directory of the wrong shape no stage runs.
C22_DispatchedOnlyForRightShape ==
    mode # "full" =>
        /\ Dispatched => RightShape(mode, target)
        /\ ~RightShape(mode, target) => NoRerunStage

\* what holds for a directory of the wrong shape: no stage runs and the
\* files stay as they are
WrongShapeRunsNothing ==
    (mode # "full" /\ ~RightShape(mode, target)) => (NoRerunStage /\ fs' = fs)

WrongShapeIsHarmless == [][WrongShapeRunsNothing]_vars

\* a rerun of source-digest on a source directory without parsed_text
LacksParsedText ==
    /\ mode = "source-digest"
    /\ configOk
    /\ target.level = "source"
    /\ fs.made[target.name]
    /\ ~fs.parsedTextDir[target.name]

C23_NoStageRuns ==
    LacksParsedText =>
        /\ rpc \in {"start", "rerun", "done"}
        /\ generatorCalls = 0
        /\ handed = NoUnits
        /\ rpc = "done" => reported = [error |-> "ENOENT",
                                       names |-> <<target, "parsed_text">>]

C23_NothingWritten == LacksParsedText => fs' = fs

\* C23: a rerun of source-digest on a directory that has no parsed_text
\* subdirectory reports an error that names the missing directory and ends
\* normally: no Generator call is made and nothing is written.
C23_MissingParsedTextIsReported == []C23_NoStageRuns /\ [][C23_NothingWritten]_vars

C23_Witness ==
    /\ LacksParsedText
    /\ rpc = "done"
    /\ reported.error = "ENOENT"
    /\ reported.names = <<SourceDir("a"), "parsed_text">>

----------------------------------------------------------------------------
(* Properties of URL discovery (checked under SpecDiscover) *)

\* the place of the first line of the response that is taken and gives u
FirstSeen(u, taken(_), form(_)) ==
    CHOOSE k \in 1..Len(response.lines) :
        /\ taken(response.lines[k]) /\ form(response.lines[k]) = u
        /\ \A h \in 1..(k - 1) : ~(taken(response.lines[h]) /\ form(response.lines[h]) = u)

\* the list returned holds each URL that a taken line gives, once, in the
\* order in which the URLs are first seen in the response
FirstOccurrences(taken(_), form(_)) ==
    LET given == {form(response.lines[k]) :
                     k \in {h \in 1..Len(response.lines) : taken(response.lines[h])}}
    IN /\ {uniqueUrls[i] : i \in 1..Len(uniqueUrls)} = given
       /\ \A i, j \in 1..Len(uniqueUrls) : i < j =>
              /\ uniqueUrls[i] # uniqueUrls[j]
              /\ FirstSeen(uniqueUrls[i], taken, form) < FirstSeen(uniqueUrls[j], taken, form)

\* the text of the line without whitespace and list marker
WithoutMarker(line) == Line(FALSE, "none", line.text)
IsAbsoluteUrl(line) == line.text.kind = "url"

\* C24 (as stated): URL discovery returns exactly the well-formed absolute
\* URLs of the response, list markers trimmed, each once and in the order of
\* their first occurrences.
C24_ExactlyTheAbsoluteUrls ==
    dpc = "done" => FirstOccurrences(IsAbsoluteUrl, WithoutMarker)

BulletOrNone(line) == line.marker \in {"none", "-", "*"}
TakenByMain(line) ==
    /\ BulletOrNone(line)
    /\ IsAbsoluteUrl(line)
    /\ line.text.scheme \in {"http", "https"}
TakenByCerebras(line) ==
    /\ BulletOrNone(line)
    /\ IsAbsoluteUrl(line)
    /\ line.text.scheme \in {"https", "HTTPS"}
    /\ line.text.host = "www.nytimes.com"
    /\ line.text.article
WithoutQuery(line) ==
    Line(FALSE, "none", Url("https", line.text.host, line.text.pathname, line.text.article, FALSE))

\* C24 (amended): URL discovery returns only well-formed absolute URLs, each
\* once and in the order of their first occurrences: in main.js the lines
\* that, without surrounding whitespace and one leading "-" or "*", start
\* with "http" and parse as a URL; in cerebras-module.js the lines that parse
\* as a URL, reduced to origin and path, that are articles of
\* www.nytimes.com; nothing when the Generator gave no text.
C24_OnlyAbsoluteUrlsOnceInOrder ==
    dpc = "done" =>
        /\ \A i \in 1..Len(uniqueUrls) : IsAbsoluteUrl(uniqueUrls[i])
        /\ module = "main" => FirstOccurrences(TakenByMain, WithoutMarker)
        /\ module = "cerebras" => FirstOccurrences(TakenByCerebras, WithoutQuery)
        /\ response.status # "text" => uniqueUrls = <<>>

\* a URL given twice, the first time behind a marker, around another URL
C24_Witness ==
    /\ dpc = "done"
    /\ response.status = "text"
    /\ response.lines = <<Line(TRUE, "-", NytArticle), Line(FALSE, "none", OtherPage),
                          Line(FALSE, "none", NytArticle)>>
    /\ module = "main"
    /\ uniqueUrls = <<Line(FALSE, "none", NytArticle), Line(FALSE, "none", OtherPage)>>

----------------------------------------------------------------------------
(* Properties of text extraction (checked under SpecRun) *)

\* the Generator answered, with nothing or with less than the least length
Insufficient(attempt) == attempt.status = "answer" /\ attempt.trimmed < MinTextLength

ExtractionReturned == Len(extractLog') = Len(extractLog) + 1

C25_Discarded ==
    (ExtractionReturned /\ Insufficient(extractLog'[Len(extractLog')])) =>
        /\ ~extractLog'[Len(extractLog')].ok
        /\ fs' = fs
        /\ sourceArticlesData' = sourceArticlesData
        /\ ~awaiting'

C25_ExcludedFromPacking ==
    (mode = "full" /\ handed.stage = "source") =>
        \A k \in 1..Len(extractLog) :
            Insufficient(extractLog[k]) =>
                \A j \in 1..Len(handed.units) :
                    handed.units[j].url # scrapedArticlePaths[k].url

\* C25: a response of the Generator to text extraction that is empty or
\* shorter than the least length is discarded: no text file is written for
\* the article, the article is not among the units handed to the packer, and
\* the article is not attempted again in that stage (full run and
\* extract-only rerun).
C25_InsufficientIsDiscarded ==
    /\ [](C25_ExcludedFromPacking /\ OnceEach(extractLog))
    /\ [][C25_Discarded]_vars

\* two articles captured, the first answered with nothing, the second packed
C25_Witness ==
    /\ mode = "full"
    /\ handed.stage = "source"
    /\ Len(extractLog) = 2
    /\ Insufficient(extractLog[1])
    /\ extractLog[2].ok
    /\ Len(handed.units) = 1
    /\ handed.units[1].url = scrapedArticlePaths[2].url

----------------------------------------------------------------------------
(* Properties of the order of the stages (checked under SpecRun) *)

\* a stage of entry i runs for the first time in this step
Starts(i, stage) == stage \notin stages[i] /\ stage \in stages'[i]

InCombinedStage ==
    mode = "full" /\ rpc \in {"aggregateDigest", "combinedDigest", "aggregateEssay", "combinedEssay"}

C26_StageStartsAfterItsInput ==
    \A i \in Entries :
        /\ (\E stage \in AllStages : Starts(i, stage)) => (i = si /\ ~awaiting)
        /\ \A stage \in AllStages :
               Starts(i, stage) =>
                   \A earlier \in AllStages :
                       StageRank(earlier) < StageRank(stage) /\ earlier # "digest"
                           => earlier \in stages[i]
        /\ Starts(i, "discover") => rendererCalls = 0
        /\ Starts(i, "extract") => Len(captureLog) = Len(articleUrls)
        /\ Starts(i, "aggregate") =>
               /\ Len(captureLog) = Len(articleUrls)
               /\ Len(extractLog) = Len(scrapedArticlePaths)

C26_CombinedAfterEverySource ==
    InCombinedStage =>
        /\ si > Len(registry)
        /\ ~(rendererCalls > 0)
        /\ \A i \in Entries :
               \/ emptyAt[i] \in EmptyStages
               \/ "aggregate" \in stages[i]

C26_NoSourceStageAfterCombined == InCombinedStage => stages' = stages

\* C26: data flows forward through the stages: for every source, discovery
\* starts only after the rendering of the source page has returned,
\* extraction only after every capture attempt of the source, per-source
\* synthesis only after every extraction attempt, each stage only after the
\* stages before it; combined synthesis starts only after the loop has gone
\* through every entry of the registry, and no stage of a source runs after.
C26_DataFlowsForward ==
    /\ []C26_CombinedAfterEverySource
    /\ [][C26_StageStartsAfterItsInput /\ C26_NoSourceStageAfterCombined]_vars

\* two sources through every stage, three captures for the second, and the
\* combined digest under way
C26_Witness ==
    /\ mode = "full"
    /\ rpc = "combinedDigest"
    /\ Len(registry) = 2
    /\ \A i \in Entries : AllStages \ {"essay"} \subseteq stages[i]
    /\ Len(captureLog) = 3
    /\ Len(extractLog) >= 2

----------------------------------------------------------------------------
(* Properties of the gate's documented defaults (checked under SpecGate) *)

\* "Maximum number of retries (default: 5)" and "Initial backoff time in ms
\* (default: 1000)" of the comment above ask_gemini
DocumentedMaxRetries == 5
DocumentedInitialBackoff == 1000

\* C27: when options.maxRetries is not supplied the gate retries at most 5
\* times, with a first backoff of 1000 ms when options.initialBackoff is not
\* supplied either, and raises the rate-limit error once 5 retries are used.
C27_DocumentedDefaultsHold ==
    \A c \in DOMAIN options :
        ~options[c].maxRetries.given =>
            /\ retries[c] <= DocumentedMaxRetries
            /\ thrownError[c] = "429" => retries[c] = DocumentedMaxRetries
            /\ (~options[c].initialBackoff.given /\ retries[c] = 1 /\ gpc[c] = "waiting")
                   => lastWait[c] = DocumentedInitialBackoff

\* the backoff default is the documented one
DocumentedBackoffHolds ==
    \A c \in DOMAIN options :
        (~options[c].initialBackoff.given /\ retries[c] = 1 /\ gpc[c] = "waiting")
            => lastWait[c] = DocumentedInitialBackoff

----------------------------------------------------------------------------
(* Properties of the files of an article (checked under SpecRun) *)

\* the directory of a source holds a file of that base name and extension:
\* raw_html holds the .html files, parsed_text the .txt files, and the
\* documents are .md files; no other file is written
HasFile(store, name, base, ext) ==
    CASE ext = ".html" -> \E f \in store.raw[name] : f.file = base
      [] ext = ".txt" -> \E f \in store.txt[name] : f.file = base
      [] OTHER -> FALSE

\* the loop is at work on the articles of entry si
OnArticles == mode = "full" /\ rpc \in {"extract", "aggregate", "sourceDigest", "sourceEssay"}

\* C28: for each article processed (captured and extracted) the source
\* directory holds an .html file with the raw HTML, a .txt file of the same
\* base name with the extracted text, and an _analysis.json file.
C28_ThreeFilesPerArticle ==
    OnArticles =>
        \A k \in 1..Len(extractLog) :
            extractLog[k].ok =>
                LET base == scrapedArticlePaths[k].rawHtmlPath IN
                /\ HasFile(fs, sourceName, base, ".html")
                /\ HasFile(fs, sourceName, base, ".txt")
                /\ HasFile(fs, sourceName, base, "_analysis.json")

\* the .html and the .txt file of an article are there, under one base name
HtmlAndTxtShareBaseName ==
    OnArticles =>
        \A k \in 1..Len(extractLog) :
            extractLog[k].ok =>
                LET base == scrapedArticlePaths[k].rawHtmlPath IN
                /\ HasFile(fs, sourceName, base, ".html")
                /\ HasFile(fs, sourceName, base, ".txt")

----------------------------------------------------------------------------
(* Properties of the degraded entry (checked under SpecPack) *)

\* the lengths of the full and of the degraded entry of the unit at idx
FullLength ==
    IF task = "articles"
    THEN ArticleEntryOverhead + articlesToProcess[idx].url + articlesToProcess[idx].text
    ELSE sourceEntry(idx, processedSourcesData[idx], task).len
DegradedLength ==
    IF task = "articles"
    THEN HeadlineEntryOverhead + articlesToProcess[idx].url
    ELSE truncatedEntry(idx, processedSourcesData[idx], task).len

\* the loop is at a unit (an article, or a source whose document was read)
\* whose full entry does not fit in what is left of the budget
FullDoesNotFit ==
    /\ ppc = "loop"
    /\ \/ InArticleLoop
       \/ InAnalysisLoop /\ FileContentTruthy(processedSourcesData[idx], task)
    /\ currentLength + FullLength > budget

C29_DegradedStep ==
    FullDoesNotFit =>
        /\ includedCount' = includedCount
        /\ idx' = idx + 1
        /\ ppc' = "loop"
        /\ IF currentLength + DegradedLength <= budget
           THEN /\ combinedContent' =
                       Append(combinedContent, Segment("headline", idx, DegradedLength))
                /\ currentLength' = currentLength + DegradedLength
           ELSE /\ combinedContent' = combinedContent
                /\ currentLength' = currentLength

\* C29: when the full entry of a unit does not fit in the remaining budget
\* the packer tries the degraded entry (the unit's identifier and a marker in
\* place of the content): if it fits it is appended and includedCount stays
\* as it is, if not nothing is appended for the unit; either way the loop
\* goes on to the next unit (both packers).
C29_DegradedEntryOrSkip == [][C29_DegradedStep]_vars

\* the first article left its degraded entry, the second left nothing
C29_Witness ==
    /\ task = "articles"
    /\ ppc = "loop"
    /\ idx = 3
    /\ includedCount = 0
    /\ Len(combinedContent) = 2
    /\ combinedContent[2].kind = "headline"
    /\ combinedContent[2].unit = 1
    /\ currentLength + HeadlineEntryOverhead + articlesToProcess[2].url > budget

----------------------------------------------------------------------------
(* Properties of the combined rerun (checked under SpecRun) *)

CombinedKindOf(rerunTask) == IF rerunTask = "combined-digest" THEN "digest" ELSE "essay"

\* a combined task for the date directory of an earlier run, inside the
\* output base, with a per-source document of the kind in a source directory
CombinedRerun ==
    /\ mode \in {"combined-digest", "combined-essay"}
    /\ configOk
    /\ target = DateDir
    /\ TargetExists(target, fs)
    /\ \E n \in SourceNames : \E d \in fs.docs[n] : d.kind = CombinedKindOf(mode)

\* C30: a rerun of combined-digest or combined-essay on such a directory
\* passes validation and reaches the combined synthesis stage: when it has
\* ended no error was reported and the per-source documents were read for
\* the Generator call that writes the new combined document.
C30_CombinedRerunReachesSynthesis ==
    (CombinedRerun /\ rpc = "done") =>
        /\ reported.error = "none"
        /\ combinedUnits[CombinedKindOf(mode)] # <<>>

\* what the code does instead: the task ends in the catch of the validation
CombinedRerunNeverRuns ==
    (mode \in {"combined-digest", "combined-essay"} /\ configOk /\ rpc # "start") =>
        /\ rpc = "done"
        /\ reported.error # "none"
        /\ NoRerunStage

----------------------------------------------------------------------------
(* Properties of the units of a payload (checked under SpecPack) *)

\* the entries of the payload, the preamble left out
EntryPlaces == {k \in 1..Len(combinedContent) : combinedContent[k].kind # "preamble"}

\* C31: every input unit appears at most once in a packed payload: no
\* article and no source document has two entries, whatever the units and
\* the budget, also when the first unit got its headline-only entry and the
\* forced inclusion of the first unit then fires.
C31_EachUnitAtMostOnce ==
    \A h, k \in EntryPlaces :
        combinedContent[h].unit = combinedContent[k].unit => h = k

\* the payload of the combined stage holds each source at most once
AnalysisUnitsAtMostOnce ==
    task \in {"digest", "essay"} => C31_EachUnitAtMostOnce

----------------------------------------------------------------------------
(* Properties of the file names of a source (checked under SpecRun) *)

\* the raw_html file an article was captured to still holds its markup
HoldsOwnMarkup(article) ==
    \E f \in fs.raw[sourceName] :
        f.file = article.rawHtmlPath /\ f.of = article.url.path

\* C32: within one source, different discovered URLs are captured to
\* different raw_html files: no later capture overwrites the markup of an
\* earlier article, and no text is handed to the packer under two URLs.
C32_DistinctUrlsDistinctFiles ==
    OnArticles =>
        /\ \A h, k \in 1..Len(scrapedArticlePaths) :
               scrapedArticlePaths[h].url # scrapedArticlePaths[k].url =>
                   scrapedArticlePaths[h].rawHtmlPath # scrapedArticlePaths[k].rawHtmlPath
        /\ \A k \in 1..Len(scrapedArticlePaths) : HoldsOwnMarkup(scrapedArticlePaths[k])
        /\ \A h, k \in 1..Len(sourceArticlesData) :
               h # k => sourceArticlesData[h].rawHtmlPath # sourceArticlesData[k].rawHtmlPath

----------------------------------------------------------------------------
(* Properties of the source directories (checked under SpecRun) *)

\* the directory of the source a unit of the combined stage was read from
DirectoryOf(unit) == allProcessedSourcesData[unit.entry].sourceName

\* C33: every registry entry processed in a full run has a source directory
\* of its own: two recorded entries never have the same directory, and the
\* combined stage reads each per-source document at most once (also for two
\* registry URLs with the same source identifier).
C33_OwnSourceDirectory ==
    mode = "full" =>
        /\ \A h, k \in 1..Len(allProcessedSourcesData) :
               h # k => allProcessedSourcesData[h].sourceName
                            # allProcessedSourcesData[k].sourceName
        /\ \A kind \in {"digest", "essay"} :
               \A h, k \in 1..Len(combinedUnits[kind]) :
                   h # k => ~(/\ combinedUnits[kind][h].file = combinedUnits[kind][k].file
                              /\ DirectoryOf(combinedUnits[kind][h])
                                     = DirectoryOf(combinedUnits[kind][k]))

\* with different source identifiers the directories differ
DifferentNamesDifferentDirectories ==
    mode = "full" =>
        \A h, k \in 1..Len(allProcessedSourcesData) :
            (h # k /\ sourceNameOf(registry[allProcessedSourcesData[h].entry].hostname)
                        # sourceNameOf(registry[allProcessedSourcesData[k].entry].hostname))
                => allProcessedSourcesData[h].sourceName # allProcessedSourcesData[k].sourceName

----------------------------------------------------------------------------
(* Properties of the documents of the combined stage (checked under SpecRun) *)

\* the source the unit was read for wrote a document of that kind in this run
WroteInThisRun(unit, kind) == kind \in allProcessedSourcesData[unit.entry].wrote

\* the document was written by this run (the snapshot holds earlier ones)
FromThisRun(file) == file.gen >= 1

\* C34: in a full run the combined digest and essay are built from the
\* per-source documents written in that run: for every recorded source that
\* wrote a document of the kind, the document read by aggregateAnalysisFiles
\* is one the run wrote, also when the source directory holds documents of
\* earlier rerun tasks.
C34_CombinedReadsThisRun ==
    mode = "full" =>
        \A kind \in {"digest", "essay"} :
            \A k \in 1..Len(combinedUnits[kind]) :
                WroteInThisRun(combinedUnits[kind][k], kind)
                    => FromThisRun(combinedUnits[kind][k].file)

\* it holds where no document of the directory has a stamp in its name
UnstampedDirectoriesReadThisRun ==
    mode = "full" =>
        \A kind \in {"digest", "essay"} :
            \A k \in 1..Len(combinedUnits[kind]) :
                (/\ WroteInThisRun(combinedUnits[kind][k], kind)
                 /\ \A d \in fs.docs[DirectoryOf(combinedUnits[kind][k])] : d.stamp = 0)
                    => FromThisRun(combinedUnits[kind][k].file)

----------------------------------------------------------------------------
(* Properties of a failed synthesis call (checked under SpecRun) *)

SynthesisPcs ==
    {"sourceDigest", "sourceEssay", "combinedDigest", "combinedEssay", "rerunGenerate"}

\* a synthesis call returns in this step, with an error (a failure that is
\* not a rate limit, or rate limits beyond the retries of the gate) or with
\* no text
SynthesisFails ==
    /\ rpc \in SynthesisPcs
    /\ awaiting /\ ~awaiting'
    /\ generated'.outcome \in {"none", "throw"}

C35_FailedStep ==
    SynthesisFails =>
        /\ fs' = fs
        /\ rpc = "sourceDigest" => (~digestSuccess' /\ rpc' = "sourceEssay")
        /\ rpc = "sourceEssay" =>
               /\ rpc' = "source" /\ si' = si + 1
               /\ \A k \in 1..Len(allProcessedSourcesData') :
                      allProcessedSourcesData'[k].entry = si
                          => "essay" \notin allProcessedSourcesData'[k].wrote
        /\ rpc = "combinedDigest" => rpc' = "aggregateEssay"
        /\ rpc = "combinedEssay" => rpc' = "done"
        /\ rpc = "rerunGenerate" => rpc' = "done"

----------------------------------------------------------------------------
(* Properties of what is recorded for the combined stage (checked under SpecRun) *)

\* the essay call of the current source returns in this step
EssayReturns == mode = "full" /\ rpc = "sourceEssay" /\ awaiting /\ ~awaiting'
DigestReturns == mode = "full" /\ rpc = "sourceDigest" /\ awaiting /\ ~awaiting'

\* the current entry is recorded in this step
Recorded == Len(allProcessedSourcesData') = Len(allProcessedSourcesData) + 1

WroteDocument(outcome) == outcome \in {"text", "blank"}

C36_BothAttemptedAndRecorded ==
    /\ DigestReturns => rpc' = "sourceEssay"
    /\ EssayReturns =>
           (Recorded <=> (digestSuccess \/ WroteDocument(generated'.outcome)))
    /\ Recorded => EssayReturns
    /\ (mode = "full" /\ rpc = "sourceDigest" /\ generated' # generated) =>
           (digestSuccess' <=> WroteDocument(generated'.outcome))

C36_CombinedAtLoopEnd ==
    (mode = "full" /\ rpc = "source" /\ si > Len(registry)) =>
        (rpc' = "aggregateDigest" <=> allProcessedSourcesData # <<>>)

\* the run has ended before the end of the loop over the registry
EndedBeforeCombined == mode = "full" /\ rpc = "aborted"

\* C36: in a full run per-source synthesis attempts the digest and the
\* essay whatever the outcome of the first; a source is recorded for the
\* combined stage if and only if at least one of its two documents was
\* written; and the combined stage is attempted if and only if at least one
\* source was recorded (it follows the record at the end of the loop, and
\* no run ends before that with a source recorded).
C36_RecordedIffWrittenCombinedIffRecorded ==
    /\ [][C36_BothAttemptedAndRecorded /\ C36_CombinedAtLoopEnd]_vars
    /\ [](EndedBeforeCombined => allProcessedSourcesData = <<>>)

\* what holds: both calls are made, the record follows the documents
\* written, and at the end of the loop the combined stage follows the record
SynthesisRecordsWhatWasWritten ==
    [][C36_BothAttemptedAndRecorded /\ C36_CombinedAtLoopEnd]_vars

----------------------------------------------------------------------------
(* Properties of a source rerun's writes (checked under SpecRun) *)

SourceRerun == mode \in {"source-digest", "source-essay"}

\* the documents of this process in a source directory
WrittenByThisRun(name) == {d \in fs.docs[name] : d.gen >= 1}

C37_OnlyOwnOutput ==
    SourceRerun =>
        /\ fs'.raw = fs.raw /\ fs'.txt = fs.txt /\ fs'.order = fs.order
        /\ fs'.made = fs.made /\ fs'.parsedTextDir = fs.parsedTextDir
        /\ fs'.combined = fs.combined
        /\ \A n \in SourceNames :
               /\ fs.docs[n] \subseteq fs'.docs[n]
               /\ fs'.docs[n] # fs.docs[n] =>
                      /\ target = SourceDir(n)
                      /\ Cardinality(fs'.docs[n] \ fs.docs[n]) = 1
                      /\ rpc = "rerunGenerate"
                      /\ generated'.outcome \in {"text", "blank"}

C37_AtMostOneDocument ==
    SourceRerun =>
        \A n \in SourceNames :
            /\ Cardinality(WrittenByThisRun(n)) <= 1
            /\ generated.outcome \notin {"text", "blank"} => WrittenByThisRun(n) = {}

\* C37: a rerun of source-digest or source-essay changes nothing but its
\* own output: every file of raw_html and parsed_text and every document
\* that exists stays as it is, at most one new document is written, in the
\* target source directory, and none when the Generator call fails or the
\* aggregation is empty.
C37_RerunChangesOnlyItsOutput ==
    /\ []C37_AtMostOneDocument
    /\ [][C37_OnlyOwnOutput]_vars

\* a rerun of the digest on a directory that holds a digest: both are there
C37_Witness ==
    /\ mode = "source-digest"
    /\ target = SourceDir("a")
    /\ rpc = "done"
    /\ generated.outcome = "text"
    /\ Cardinality(WrittenByThisRun("a")) = 1
    /\ \E d \in fs.docs["a"] : d.kind = "digest" /\ d.gen = 0

----------------------------------------------------------------------------
(* Termination of the full run (checked under SpecRun and FairSpecRun) *)

\* every call returns or fails, and the orchestrator takes its next step
FairSpecRun == SpecRun /\ WF_vars(RunNext)

FullRun == mode = "full" /\ configOk

\* the loop over the registry has gone past entry i
Attempted(i) == si > i

EndOfWorkflow == rpc = "done" /\ \A i \in 1..Len(registry) : Attempted(i)

\* nothing more happens: the process has ended
Stopped == ~ENABLED RunNext

\* C38: a full run terminates: for every registry and every combination of
\* outcomes of the Renderer and Generator calls the orchestrator reaches the
\* end of the workflow, each source attempted once. (As a property of the
\* finite runs: a full run stops nowhere but at the end of the workflow.)
C38_FullRunReachesEnd ==
    /\ [](FullRun /\ Stopped => EndOfWorkflow)
    /\ [][FullRun => si' \in {si, si + 1}]_vars

\* the run stops in every case, at its end or in main().catch
FullRunStops ==
    /\ FullRun ~> (rpc \in {"done", "aborted"})
    /\ [][FullRun => si' \in {si, si + 1}]_vars
    /\ [](FullRun /\ rpc = "done" => EndOfWorkflow)

====
